---- MODULE Spec2Model ----
(***************************************************************************)
(* polkadot-launch: the launch of a relay chain with its parachains and    *)
(* the forkless runtime upgrade test that runs on top of the launched      *)
(* network (runner.ts, spawn.ts, rpc.ts).                                  *)
(*                                                                         *)
(* The orchestrator is one sequential asynchronous program: `pc` is the    *)
(* statement it is at, every await is a state.  The node binaries are      *)
(* independent processes: the tracking table `p` of spawn.ts holds, per    *)
(* key, what the orchestrator did to the handle and whether the process    *)
(* has exited.  Wall-clock time is `now`, in milliseconds.                 *)
(***************************************************************************)
EXTENDS Integers, Sequences, FiniteSets, TLC

\* ------------------------------------------------------------------ bounds
MaxRelay == 2
MaxParas == 2
MaxNodes == 2
MaxSimple == 1
NumParaIds == 2
NumVersions == 2

\* ------------------------------------------------------- program constants
parachain_block_time == 12000
MaxTries == 3
TimerStep == 1000
ExtraOutputDelay == 250
\* process.exit() without an argument ends the process with the success code
ExitDefault == 0
\* process.exit(1) of the genesis export failure, process.exit(2) of SIGINT
ExitFailure == 1
ExitInterrupt == 2
\* +undefined: the number an absent id converts to (JSON writes it as null)
NaN == -2

\* ------------------------------------------------------------ input domains
\* parachain ids: a number inside a chain spec, a decimal string in the plan
ParaIdNumbers == 1..NumParaIds
toString(n) == << "str", n >>
ParaIds == { toString(n) : n \in ParaIdNumbers }
NoId == << "undefined", 0 >>
\* unary plus on an id of the plan: +"2000" is 2000, +undefined is NaN
toNumber(id) == IF id = NoId THEN NaN ELSE id[2]
\* the spec versions a chain can report: the runtime it was launched with, and
\* the runtimes an upgrade can lead to
LaunchVersion == 1
Versions == LaunchVersion..NumVersions
\* what getRelayInfo can return for (epochLength, blockTime)
RelayInfos == { [epochLength |-> 1, blockTime |-> 400],
                [epochLength |-> 3, blockTime |-> 500] }
\* what getCodeValidationDelay can return (in relay blocks)
ValidationDelays == {0, 2}
\* the field of a generated chain spec that carries the parachain id
GenFields == { "paraId", "para_id", "none" }

RECURSIVE SeqsUpTo(_, _)
SeqsUpTo(S, k) ==
    IF k = 0 THEN { <<>> }
    ELSE LET shorter == SeqsUpTo(S, k - 1)
         IN  shorter \cup { Append(s, x) : s \in { t \in shorter : Len(t) = k - 1 }, x \in S }

\* a parachain of the raw plan: not resolved yet
ParachainConfigs == [ id : ParaIds \cup { NoId }, nodes : 0..MaxNodes,
                      resolvedId : { NoId }, resolvedSpec : { NoId } ]
SimpleParachainConfigs == [ id : ParaIds, resolvedId : { NoId } ]

\* ------------------------------------------------------------------- keys
\* spawn.ts keys the table by node name (relay), by wsPort (collator), by
\* port (simple collator) and by "spec" (chain spec generation); names and
\* ports are unique across the plan.
RelayKey(n) == << "name", n, 0 >>
CollatorKey(a, b) == << "wsPort", a, b >>
SimpleKey(k) == << "port", k, 0 >>
SpecKey == << "spec", 0, 0 >>
NoKey == << "none", 0, 0 >>
Keys == { RelayKey(n) : n \in 1..MaxRelay }
        \cup { CollatorKey(a, b) : a \in 1..MaxParas, b \in 1..MaxNodes }
        \cup { SimpleKey(k) : k \in 1..MaxSimple }
        \cup { SpecKey }

NoSession == [ exists |-> FALSE, first_node |-> NoKey, old_version |-> 0, has_updated |-> FALSE ]
\* if (should_wait) { ... }: no prompt exists outside the block; inside it the
\* prompt is open or submitted, is_ready is the flag the loop polls, and
\* events are the releasing events that have arrived
NoWait == [ prompt |-> "none", is_ready |-> FALSE, events |-> {} ]
NoTx == [ kind |-> "none", finalization |-> FALSE, status |-> "none", promise |-> "none" ]
\* executeTransaction: new Promise(...), then tx.signAndSend(sender, ..., callback)
signAndSend(kind, finalization) ==
    [ kind |-> kind, finalization |-> finalization, status |-> "sent", promise |-> "pending" ]
NoGen == [ field |-> "none", value |-> 0 ]
NoRawSpec == [ from |-> << >>, converted |-> FALSE, rawInitialized |-> FALSE ]

VARIABLES
    config,                 \* the launch plan, resolved in place
    mode,                   \* "launch", "upgrade" or "upgrade_parachains": what
                            \* cli.ts dispatched to
    pc,                     \* the statement the orchestrator is at
    exit_code,              \* << code >> once the process has ended, << >> before
    wait,                   \* runThenTryUpgrade: the prompt and is_ready of its wait block
    resolve_round,          \* how many times resolveParachainSpecs was entered
    gen,                    \* the id field of the raw spec being resolved
    specFile,               \* run(): the stages applied to the relay spec
    rawSpecFile,            \* run(): the raw spec the nodes are started with
    tx,                     \* executeTransaction: the extrinsic in flight
    node_count,             \* relay node loop counter
    para_i,                 \* index of the parachain entry a loop is at
    node_i,                 \* index of the node of that parachain
    timer,                  \* waitWithTimer: seconds left to count down
    now,                    \* wall clock, ms
    p,                      \* spawn.ts: the process tracking table
    api,                    \* the endpoint of the open chain client, or NoKey
    registeredParachains,   \* ids already written into genesis
    genesis,                \* id -> number of addGenesisParachain calls
    relay_old_version,
    epoch_time,
    relay_new_version,
    new_epoch_length,
    new_relay_block_time,   \* (the parachains-only test: blockTime)
    code_validation_delay,
    parachains_info,        \* resolvedId -> UpgradeSession
    relay_upgrade_failed,
    parachains_upgrade_failed,
    try_n,
    first_pass,
    spec_version,           \* the version the verification loop has just read
    report,                 \* "none", "failed" or "complete": the summary banner
    hist                    \* what has happened so far (observations only)

vars == << wait, config, mode, pc, exit_code, resolve_round, gen, specFile, rawSpecFile, tx,
           node_count, para_i, node_i, timer, now, p, api,
           registeredParachains, genesis, relay_old_version, epoch_time,
           relay_new_version, new_epoch_length, new_relay_block_time,
           code_validation_delay, parachains_info, relay_upgrade_failed,
           parachains_upgrade_failed, try_n, first_pass, spec_version, report, hist >>

\* groups of variables, for the UNCHANGED clauses
runVars == << wait, mode, exit_code, resolve_round, gen, specFile, rawSpecFile >>
planVars == << config, registeredParachains, genesis, runVars, tx >>
loopVars == << node_count, para_i, node_i >>
clockVars == << timer, now >>
baseVars == << relay_old_version, epoch_time >>
postVars == << relay_new_version, new_epoch_length, new_relay_block_time,
               code_validation_delay >>
verVars == << relay_upgrade_failed, parachains_upgrade_failed, try_n, first_pass,
              spec_version, report >>
progVars == << baseVars, postVars, parachains_info, verVars >>

\* --------------------------------------------------------------- helpers
CeilDiv(x, d) == (x + d - 1) \div d

\* waitWithTimer: the number of one-second delays it awaits
SecondsTotalFloor(time) == time \div TimerStep
SecondsTotal(time) == CeilDiv(time, TimerStep)

\* killProcess(key): p[key].kill('SIGINT')
killProcessSkipped(tbl, key) == tbl
killProcessAll(tbl, key) == [ k \in Keys |-> IF tbl[k] = "live" THEN "signalled" ELSE tbl[k] ]
killProcess(tbl, key) == [ tbl EXCEPT ![key] = IF @ = "live" THEN "signalled" ELSE @ ]

\* p[key] = spawn(bin, args): the handle the key held is no longer in the table
replaced(tbl, key) == IF tbl[key] = "live" THEN { key } ELSE {}

\* p[key] = spawn(bin, args)
spawnNowhere(tbl, key) == tbl
spawn(tbl, key) == [ tbl EXCEPT ![key] = "live" ]

\* killAll(): for (const key of Object.keys(p)) p[key].kill()
liveKeys(tbl) == { k \in Keys : tbl[k] = "live" }
killAllKeys(tbl) == { k \in Keys : tbl[k] # "none" }

\* process.on("exit", ...): the hook cli.ts registers
onExitNothing(tbl) == {}
onExit(tbl) == killAllKeys(tbl)

\* process.exit(code): the exit hook runs, if registered, and the process ends
ExitProcess(code, reason) ==
    LET killed == IF hist.handlers THEN onExit(p) ELSE {}
    IN  /\ pc' = "exited"
        /\ exit_code' = << code >>
        \* the timers, the pending callbacks and the connections end with it
        /\ wait' = NoWait
        /\ gen' = NoGen
        /\ tx' = NoTx
        /\ node_count' = 0
        /\ para_i' = 1
        /\ node_i' = 1
        /\ timer' = 0
        /\ now' = 0
        /\ api' = NoKey
        /\ p' = [ k \in Keys |-> IF k \in killed /\ p[k] = "live" THEN "signalled" ELSE p[k] ]
        /\ hist' = [ hist EXCEPT
                       !.exitReason = reason,
                       !.killAllRuns = @ + (IF hist.handlers THEN 1 ELSE 0),
                       !.killed = [ k \in Keys |-> @[k] + (IF k \in killed THEN 1 ELSE 0) ] ]

\* checkConfig(rawConfig): whether the plan has the expected properties
checkConfig(cfg) == cfg.valid

\* `para-${id || chain || `unnamed-${Date.now()}-$`}`, and its raw spec file
RawSpecName(id, time) == IF id # NoId THEN << "raw", id >> ELSE << "raw", << "unnamed", time >> >>

\* addParachainsToGenesis: paras = x.concat(y)
\* (entry: the place of the parachain in its own list)
parasSimpleFirst ==
    [ k \in 1..(Len(config.simpleParachains) + Len(config.parachains)) |->
        IF k <= Len(config.simpleParachains)
        THEN [ isSimple |-> TRUE, entry |-> k,
               resolvedId |-> config.simpleParachains[k].resolvedId ]
        ELSE [ isSimple |-> FALSE, entry |-> k - Len(config.simpleParachains),
               resolvedId |-> config.parachains[k - Len(config.simpleParachains)].resolvedId ] ]
paras ==
    [ k \in 1..(Len(config.parachains) + Len(config.simpleParachains)) |->
        IF k <= Len(config.parachains)
        THEN [ isSimple |-> FALSE, entry |-> k,
               resolvedId |-> config.parachains[k].resolvedId ]
        ELSE [ isSimple |-> TRUE, entry |-> k - Len(config.parachains),
               resolvedId |-> config.simpleParachains[k - Len(config.parachains)].resolvedId ] ]

NumRelay == config.relaychain
NumParachains == Len(config.parachains)
NumNodes(a) == config.parachains[a].nodes
ResolvedId(a) == config.parachains[a].resolvedId


\* ------------------------------------------------------------------ Init
\* a chunk of a collator's stderr: one holding a readiness line, or other output
NoChunk == "none"
Chunks == { "Running JSON-RPC WS server:", "Imported", "Listening for new connections",
            "other output" }

\* startCollator: let ready = message.includes(...) || ...
anyChunk(message) == TRUE
collatorReady(message) ==
    message \in { "Running JSON-RPC WS server:", "Imported", "Listening for new connections" }

\* startSimpleCollator: let ready = message.includes(...) || ...
simpleCollatorReady(message) ==
    message \in { "Running JSON-RPC WS server:", "Listening for new connections" }

Init ==
    /\ config \in [ relaychain : 1..MaxRelay,
                    parachains : SeqsUpTo(ParachainConfigs, MaxParas),
                    simpleParachains : SeqsUpTo(SimpleParachainConfigs, MaxSimple),
                    valid : BOOLEAN ]
    /\ mode = "none"
    /\ pc = "cli"
    /\ exit_code = << >>
    /\ wait = NoWait
    /\ resolve_round = 0
    /\ gen = NoGen
    /\ specFile = << >>
    /\ rawSpecFile = NoRawSpec
    /\ tx = NoTx
    /\ node_count = 0
    /\ para_i = 1
    /\ node_i = 1
    /\ timer = 0
    /\ now = 0
    /\ p = [ k \in Keys |-> "none" ]
    /\ api = NoKey
    /\ registeredParachains = {}
    /\ genesis = [ id \in ParaIds |-> 0 ]
    /\ relay_old_version = 0
    /\ epoch_time = 0
    /\ relay_new_version = 0
    /\ new_epoch_length = 0
    /\ new_relay_block_time = 0
    /\ code_validation_delay = 0
    /\ parachains_info = [ id \in ParaIds |-> NoSession ]
    /\ relay_upgrade_failed = FALSE
    /\ parachains_upgrade_failed = FALSE
    /\ try_n = 0
    /\ first_pass = TRUE
    /\ spec_version = 0
    /\ report = "none"
    /\ hist = [ handlers |-> FALSE,          \* the exit and SIGINT hooks are registered
                returned |-> "none",         \* what run() returned: "null" or "config"
                genesisDone |-> FALSE,       \* addParachainsToGenesis has completed
                visited |-> << >>,           \* the entries its loop has visited
                diskChanged |-> FALSE,       \* the binary that loop found present and
                                             \* launch is about to look for was removed
                genesisOf |-> [ id \in ParaIds |-> << >> ],   \* the entry whose genesis
                                             \* state and code were written for the id
                generated |-> [ a \in 1..MaxParas |-> NaN ],   \* the id in the generated
                                             \* spec of an entry without id
                ready |-> {},                \* collators observed ready by launch
                options |-> [ k \in Keys |-> << >> ],   \* what each collator was
                                             \* started with, start after start
                paraApi |-> NoKey,           \* the node parachainApi is connected to
                leaked |-> 0,                \* connections whose variable was assigned
                                             \* again before they were disconnected
                forced |-> << >>,            \* the steps completed of the restoration
                                             \* of the parachain being launched
                chunk |-> NoChunk,           \* the stderr chunk of the awaited collator
                                             \* that its "data" handler has still to handle
                keyMissing |-> NoKey,        \* the collator whose declared key file
                                             \* applyAuraKey found absent, while no
                                             \* collator has been started since
                exitReason |-> "none",       \* why the process ended
                killAllRuns |-> 0,           \* invocations of killAll
                killed |-> [ k \in Keys |-> 0 ],   \* kill() calls of killAll per key
                baselineRead |-> FALSE,      \* getRelayInfo answered at baseline
                phaseStart |-> 0,            \* when the relay rolling restart began
                restartAt |-> << >>,         \* when each relay node was restarted
                stopped |-> {},              \* keys killProcess was called on
                orphans |-> {},              \* keys whose handle was replaced in the
                                             \* table before any signal was sent to it
                restarted |-> {},            \* keys started again by the upgrade test
                sessionRead |-> {},          \* parachain entries whose session was read
                relaySubmitted |-> FALSE,    \* upgradeRelayRuntime was awaited
                relayVerdict |-> FALSE,      \* the relay outcome was determined
                txError |-> << >>,           \* the kind and entry of the transaction that errored
                authorized |-> {},           \* entries whose authorization was finalized
                upgraded |-> {},             \* entries upgradeParachainRuntime ran for
                passes |-> 0,                \* verification passes begun
                waitFrom |-> 0,              \* when the wait before the parachain upgrades,
                                             \* or before the pass in progress, began
                pending |-> {},              \* sessions not upgraded when the pass began
                reads |-> {} ]               \* sessions re-read in the current pass

\* ================================================================ cli.ts
\* what the end of the process leaves as it was: the plan, the spec files and
\* what the run has recorded
exitKept == << config, mode, resolve_round, specFile, rawSpecFile,
               registeredParachains, genesis, progVars >>

\* the config file argument is missing, or the file does not exist:
\* process.exit(), before the exit hooks are registered
CliNoConfigFile ==
    /\ pc = "cli"
    /\ ExitProcess(ExitDefault, "missing_config_file")
    /\ UNCHANGED exitKept

\* process.on("exit"), process.on("SIGINT"), then the dispatch on argv
CliStart ==
    /\ pc = "cli"
    /\ \E m \in { "launch", "upgrade" } :
          /\ mode' = m
          /\ pc' = IF m = "upgrade" THEN "up_check" ELSE "run_check"
    /\ hist' = [ hist EXCEPT !.handlers = TRUE ]
    /\ UNCHANGED << wait, config, exit_code, resolve_round, gen, specFile, rawSpecFile, tx,
                    loopVars, clockVars, p, api, registeredParachains, genesis, progVars >>

\* the function cli.ts called has returned and no child process is left:
\* the process ends on its own, with the exit hook
NormalExit ==
    /\ pc = "returned"
    /\ \A k \in Keys : p[k] \notin { "live", "signalled" }
    /\ ExitProcess(ExitDefault, hist.exitReason)
    /\ UNCHANGED exitKept

\* ====================================================== runThenTryUpgrade
\* if (!checkConfig(raw_config, config_dir, true, false)) return;
\* let config = await resolveParachainSpecs(config_dir, raw_config);
UpgradeCheck ==
    /\ pc = "up_check"
    /\ IF checkConfig(config)
       THEN /\ pc' = "resolve"
            /\ resolve_round' = resolve_round + 1
            /\ para_i' = 1
            /\ hist' = hist
       ELSE /\ pc' = "returned"
            /\ hist' = [ hist EXCEPT !.exitReason = "invalid_config" ]
            /\ UNCHANGED << resolve_round, para_i >>
    /\ UNCHANGED << wait, config, mode, exit_code, gen, specFile, rawSpecFile, tx,
                    node_count, node_i, clockVars, p, api, registeredParachains,
                    genesis, progVars >>

\* "Generate chain specs for parachains that do not have them specified":
\* a specified chain spec file that does not exist ends the test (return false)
UpgradeSpecFiles ==
    /\ pc = "up_spec_files"
    /\ \/ /\ pc' = "run_check"
          /\ hist' = hist
       \/ /\ NumParachains > 0
          /\ pc' = "returned"
          /\ hist' = [ hist EXCEPT !.exitReason = "missing_chain_spec" ]
    /\ UNCHANGED << wait, config, mode, exit_code, resolve_round, gen, specFile, rawSpecFile,
                    tx, loopVars, clockVars, p, api, registeredParachains, genesis,
                    progVars >>

\* =================================================== resolveParachainSpecs
\* where control goes when the parachains are resolved
afterResolve ==
    CASE mode = "upgrade" /\ resolve_round = 1 -> "up_spec_files"
      [] mode = "upgrade_parachains" /\ resolve_round = 1 -> "run_check"
      [] OTHER -> "relay_bin"

resolveKept == << wait, mode, exit_code, resolve_round, specFile, rawSpecFile, tx, node_count,
                  node_i, clockVars, api, registeredParachains, genesis, progVars, hist >>

\* let specFile = await generateChainSpec(bin, name, chain)
ResolveGenerateSpec ==
    /\ pc = "resolve"
    /\ para_i <= NumParachains
    /\ p' = spawn(p, SpecKey)
    /\ pc' = "resolve_spec_wait"
    /\ UNCHANGED << config, gen, para_i >>
    /\ UNCHANGED resolveKept

\* p["spec"].on("close"): let rawSpecFile = await generateChainSpecRaw(...)
ResolveGenerateRaw ==
    /\ pc = "resolve_spec_wait"
    /\ p[SpecKey] = "live"
    /\ p' = spawn([ p EXCEPT ![SpecKey] = "exited" ], SpecKey)
    /\ pc' = "resolve_raw_wait"
    /\ UNCHANGED << config, gen, para_i >>
    /\ UNCHANGED resolveKept

\* p["spec"].on("close"): the raw spec is on disk, with the id the binary gave it
ResolveRawClosed ==
    /\ pc = "resolve_raw_wait"
    /\ p[SpecKey] = "live"
    /\ p' = [ p EXCEPT ![SpecKey] = "exited" ]
    /\ \E f \in GenFields, g \in ParaIdNumbers :
          /\ f = "none" => g = 1
          /\ gen' = [ field |-> f, value |-> g ]
          /\ hist' = IF config.parachains[para_i].id = NoId /\ f # "none"
                     THEN [ hist EXCEPT !.generated[para_i] = g ]
                     ELSE hist
    /\ pc' = "resolve_edit"
    /\ UNCHANGED << config, para_i >>
    /\ UNCHANGED << wait, mode, exit_code, resolve_round, specFile, rawSpecFile, tx, node_count,
                    node_i, clockVars, api, registeredParachains, genesis, progVars >>

\* the editor handed to editSpec: spec.para_id = +id!; spec.paraId = +id!
editedSpec(g, id) == IF g.field # "none" THEN [ g EXCEPT !.value = toNumber(id) ] ELSE g

\* await editSpec(rawSpecFile, editor); parachain.resolvedSpec = rawSpecFile
ResolveEditSpec ==
    /\ pc = "resolve_edit"
    /\ gen' = editedSpec(gen, config.parachains[para_i].id)
    /\ config' = [ config EXCEPT !.parachains[para_i].resolvedSpec =
                      RawSpecName(config.parachains[para_i].id, now) ]
    /\ pc' = "resolve_id"
    /\ UNCHANGED << p, para_i >>
    /\ UNCHANGED resolveKept

\* registry.createType('u32', +id!) inside the editor does not accept NaN
ResolveEditThrows ==
    /\ pc = "resolve_edit"
    /\ toNumber(config.parachains[para_i].id) = NaN
    /\ pc' = "rejected"
    /\ UNCHANGED << config, gen, p, para_i >>
    /\ UNCHANGED resolveKept

\* if (parachain.resolvedId) continue;
ResolveKeepId ==
    /\ pc = "resolve_id"
    /\ config.parachains[para_i].resolvedId # NoId
    /\ gen' = NoGen
    /\ para_i' = para_i + 1
    /\ pc' = "resolve"
    /\ UNCHANGED << config, p >>
    /\ UNCHANGED resolveKept

\* else if (parachain.id) parachain.resolvedId = parachain.id;
ResolveExplicitId ==
    /\ pc = "resolve_id"
    /\ config.parachains[para_i].resolvedId = NoId
    /\ config.parachains[para_i].id # NoId
    /\ config' = [ config EXCEPT !.parachains[para_i].resolvedId =
                      config.parachains[para_i].id ]
    /\ gen' = NoGen
    /\ para_i' = para_i + 1
    /\ pc' = "resolve"
    /\ UNCHANGED p
    /\ UNCHANGED resolveKept

\* else: const paraId = await getParachainIdFromSpec(bin, parachain.resolvedSpec)
ResolveReadSpec ==
    /\ pc = "resolve_id"
    /\ config.parachains[para_i].resolvedId = NoId
    /\ config.parachains[para_i].id = NoId
    /\ p' = spawn(p, SpecKey)
    /\ pc' = "resolve_read_wait"
    /\ UNCHANGED << config, gen, para_i >>
    /\ UNCHANGED resolveKept

\* return spec.paraId || spec.para_id: a field that is absent, or null, is falsy
getParachainIdFromSpec(g) == IF g.field # "none" /\ g.value \in ParaIdNumbers THEN g.value ELSE NaN

\* p["spec"].on("close"): parachain.resolvedId = paraId.toString(), which
\* throws when paraId is null or undefined
ResolveReadClosed ==
    /\ pc = "resolve_read_wait"
    /\ p[SpecKey] = "live"
    /\ p' = [ p EXCEPT ![SpecKey] = "exited" ]
    /\ LET paraId == getParachainIdFromSpec(gen)
       IN  IF paraId # NaN
           THEN /\ config' = [ config EXCEPT !.parachains[para_i].resolvedId = toString(paraId) ]
                /\ gen' = NoGen
                /\ para_i' = para_i + 1
                /\ pc' = "resolve"
           ELSE /\ pc' = "rejected"
                /\ UNCHANGED << config, gen, para_i >>
    /\ UNCHANGED resolveKept

\* for (const parachain of config.simpleParachains) parachain.resolvedId = parachain.id
ResolveSimple ==
    /\ pc = "resolve"
    /\ para_i > NumParachains
    /\ config' = [ config EXCEPT !.simpleParachains =
                      [ i \in 1..Len(config.simpleParachains) |->
                          [ config.simpleParachains[i] EXCEPT !.resolvedId =
                              config.simpleParachains[i].id ] ] ]
    /\ para_i' = 1
    /\ pc' = afterResolve
    /\ UNCHANGED << gen, p >>
    /\ UNCHANGED resolveKept

\* =================================================================== run
\* where control goes after the configuration check of run()
checkIgnored(ok) == "resolve"
afterCheck(ok) == IF ok THEN "resolve" ELSE "returned"

\* registeredParachains = {}; if (!checkConfig(rawConfig)) return null;
\* const config = await resolveParachainSpecs(config_dir, rawConfig)
RunCheck ==
    /\ pc = "run_check"
    /\ registeredParachains' = {}
    /\ pc' = afterCheck(checkConfig(config))
    /\ IF afterCheck(checkConfig(config)) = "resolve"
       THEN /\ resolve_round' = resolve_round + 1
            /\ para_i' = 1
            /\ hist' = hist
       ELSE /\ hist' = [ hist EXCEPT !.returned = "null", !.exitReason = "invalid_config" ]
            /\ UNCHANGED << resolve_round, para_i >>
    /\ UNCHANGED << wait, config, mode, exit_code, gen, specFile, rawSpecFile, tx, node_count,
                    node_i, clockVars, p, api, genesis, progVars >>

\* if (!fs.existsSync(relay_chain_bin)) process.exit()
RelayBinMissing ==
    /\ pc = "relay_bin"
    /\ ExitProcess(ExitDefault, "missing_relay_binary")
    /\ UNCHANGED exitKept

\* the statements of run() that build the relay chain spec, in program order
RunStages == << "generateChainSpec", "clearAuthorities", "addAuthority",
                "changeGenesisConfig", "addParachainsToGenesis",
                "addHrmpChannelsToGenesis", "addBootNodes", "chainInitializer",
                "generateChainSpecRaw", "chainRawInitializer", "startNode" >>

StageIndex(s) == CHOOSE i \in 1..Len(RunStages) : RunStages[i] = s

\* the statement that follows stage s
startBeforeRaw(s) == IF s = "chainInitializer" THEN "startNode" ELSE RunStages[StageIndex(s) + 1]
stageAfter(s) == RunStages[StageIndex(s) + 1]

stageKept == << wait, config, mode, exit_code, resolve_round, gen, tx, node_i, clockVars, api,
                registeredParachains, genesis, progVars >>

\* let specFile = await generateChainSpec(relay_chain_bin, specName, specName)
GenerateChainSpec ==
    /\ pc = "relay_bin"
    /\ p' = spawn(p, SpecKey)
    /\ pc' = "generateChainSpec"
    /\ UNCHANGED << specFile, rawSpecFile, node_count, para_i, hist >>
    /\ UNCHANGED stageKept

\* p["spec"].on("close")
GenerateChainSpecClosed ==
    /\ pc = "generateChainSpec"
    /\ p[SpecKey] = "live"
    /\ p' = [ p EXCEPT ![SpecKey] = "exited" ]
    /\ specFile' = << "generateChainSpec" >>
    /\ pc' = stageAfter("generateChainSpec")
    /\ UNCHANGED << rawSpecFile, node_count, para_i, hist >>
    /\ UNCHANGED stageKept

\* clearAuthorities(specFile)
ClearAuthorities ==
    /\ pc = "clearAuthorities"
    /\ specFile' = Append(specFile, "clearAuthorities")
    /\ node_count' = 0
    /\ pc' = stageAfter("clearAuthorities")
    /\ UNCHANGED << rawSpecFile, para_i, p, hist >>
    /\ UNCHANGED stageKept

\* for (const node of config.relaychain.nodes) await addAuthority(specFile, node.name)
AddAuthority ==
    /\ pc = "addAuthority"
    /\ node_count < NumRelay
    /\ node_count' = node_count + 1
    /\ specFile' = Append(specFile, "addAuthority")
    /\ UNCHANGED << pc, rawSpecFile, para_i, p, hist >>
    /\ UNCHANGED stageKept

AuthoritiesDone ==
    /\ pc = "addAuthority"
    /\ node_count = NumRelay
    /\ pc' = stageAfter("addAuthority")
    /\ UNCHANGED << specFile, rawSpecFile, node_count, para_i, p, hist >>
    /\ UNCHANGED stageKept

\* a stage that runs only when the configuration asks for it
Optional(stage) ==
    \E has \in BOOLEAN :
       specFile' = IF has THEN Append(specFile, stage) ELSE specFile

\* if (config.relaychain.genesis) await changeGenesisConfig(specFile, ...)
ChangeGenesisConfig ==
    /\ pc = "changeGenesisConfig"
    /\ Optional("changeGenesisConfig")
    /\ pc' = stageAfter("changeGenesisConfig")
    /\ para_i' = 1
    /\ UNCHANGED << rawSpecFile, node_count, p, hist >>
    /\ UNCHANGED stageKept

\* addParachainsToGenesis: one iteration of its loop over paras per step
registerAlways(id) == TRUE
notRegistered(id) == id \notin registeredParachains

AddParachainToGenesis ==
    /\ pc = "addParachainsToGenesis"
    /\ para_i <= Len(paras)
    /\ LET id == paras[para_i].resolvedId
       IN  IF notRegistered(id)
           THEN /\ genesis' = [ genesis EXCEPT ![id] = @ + 1 ]
                /\ registeredParachains' = registeredParachains \cup { id }
                /\ hist' = [ hist EXCEPT
                               !.visited = Append(@, << paras[para_i].isSimple, paras[para_i].entry >>),
                               !.genesisOf[id] = << paras[para_i].isSimple, paras[para_i].entry >> ]
           ELSE /\ UNCHANGED << genesis, registeredParachains >>
                /\ hist' = [ hist EXCEPT
                               !.visited = Append(@, << paras[para_i].isSimple, paras[para_i].entry >>) ]
    /\ para_i' = para_i + 1
    /\ UNCHANGED << wait, config, mode, pc, exit_code, resolve_round, gen, specFile, rawSpecFile,
                    tx, node_count, node_i, clockVars, p, api, progVars >>

\* if (!fs.existsSync(bin)) { console.error(...); process.exit(); }
GenesisBinMissing ==
    /\ pc = "addParachainsToGenesis"
    /\ para_i <= Len(paras)
    /\ ExitProcess(ExitDefault, IF paras[para_i].isSimple THEN "missing_simple_binary"
                                                          ELSE "missing_parachain_binary")
    /\ UNCHANGED exitKept

\* exportGenesisState / exportGenesisWasm failed: process.exit(1)
GenesisExportFails ==
    /\ pc = "addParachainsToGenesis"
    /\ para_i <= Len(paras)
    /\ notRegistered(paras[para_i].resolvedId)
    /\ ExitProcess(ExitFailure, "export_failed")
    /\ UNCHANGED exitKept

GenesisDone ==
    /\ pc = "addParachainsToGenesis"
    /\ para_i > Len(paras)
    /\ specFile' = Append(specFile, "addParachainsToGenesis")
    /\ hist' = [ hist EXCEPT !.genesisDone = TRUE ]
    /\ pc' = stageAfter("addParachainsToGenesis")
    /\ para_i' = 1
    /\ UNCHANGED << rawSpecFile, node_count, p >>
    /\ UNCHANGED stageKept

\* if (config.hrmpChannels) await addHrmpChannelsToGenesis(specFile, ...)
AddHrmpChannelsToGenesis ==
    /\ pc = "addHrmpChannelsToGenesis"
    /\ Optional("addHrmpChannelsToGenesis")
    /\ pc' = stageAfter("addHrmpChannelsToGenesis")
    /\ UNCHANGED << rawSpecFile, node_count, para_i, p, hist >>
    /\ UNCHANGED stageKept

\* addBootNodes(specFile, bootnodes)
AddBootNodes ==
    /\ pc = "addBootNodes"
    /\ specFile' = Append(specFile, "addBootNodes")
    /\ pc' = stageAfter("addBootNodes")
    /\ UNCHANGED << rawSpecFile, node_count, para_i, p, hist >>
    /\ UNCHANGED stageKept

\* if (config.relaychain.chainInitializer) specFile = await runInitializer(...)
ChainInitializer ==
    /\ pc = "chainInitializer"
    /\ Optional("chainInitializer")
    /\ pc' = stageAfter("chainInitializer")
    /\ node_count' = 0
    /\ UNCHANGED << rawSpecFile, para_i, p, hist >>
    /\ UNCHANGED stageKept

\* let rawSpecFile = await generateChainSpecRaw(relay_chain_bin, specName, specFile)
GenerateChainSpecRaw ==
    /\ pc = "generateChainSpecRaw"
    /\ p[SpecKey] # "live"
    /\ p' = spawn(p, SpecKey)
    /\ UNCHANGED << pc, specFile, rawSpecFile, node_count, para_i, hist >>
    /\ UNCHANGED stageKept

\* p["spec"].on("close"): the raw spec is the conversion of specFile
GenerateChainSpecRawClosed ==
    /\ pc = "generateChainSpecRaw"
    /\ p[SpecKey] = "live"
    /\ p' = [ p EXCEPT ![SpecKey] = "exited" ]
    /\ rawSpecFile' = [ from |-> specFile, converted |-> TRUE, rawInitialized |-> FALSE ]
    /\ pc' = stageAfter("generateChainSpecRaw")
    /\ UNCHANGED << specFile, node_count, para_i, hist >>
    /\ UNCHANGED stageKept

\* if (config.relaychain.chainRawInitializer) rawSpecFile = await runInitializer(...)
ChainRawInitializer ==
    /\ pc = "chainRawInitializer"
    /\ \E has \in BOOLEAN : rawSpecFile' = [ rawSpecFile EXCEPT !.rawInitialized = has ]
    /\ pc' = stageAfter("chainRawInitializer")
    /\ node_count' = 0
    /\ UNCHANGED << specFile, para_i, p, hist >>
    /\ UNCHANGED stageKept

launchKept == << wait, config, mode, exit_code, resolve_round, gen, specFile, rawSpecFile,
                 clockVars, registeredParachains, genesis, progVars >>

\* "First we launch each of the validators for the relay chain."
\* startNode(relay_chain_bin, name, ..., rawSpecFile, flags, basePath)
LaunchStartNode ==
    /\ pc = "startNode"
    /\ node_count < NumRelay
    /\ node_count' = node_count + 1
    /\ p' = spawn(p, RelayKey(node_count + 1))
    /\ hist' = [ hist EXCEPT !.orphans = @ \cup replaced(p, RelayKey(node_count + 1)) ]
    /\ UNCHANGED << pc, tx, para_i, node_i, api >>
    /\ UNCHANGED launchKept

\* for (const node of config.relaychain.nodes): the loop has ended
afterFirstValidator(count) == count >= 1
validatorsSpawned(count) == count = NumRelay

\* relayChainApi = await connect(config.relaychain.nodes[0].wsPort, ...)
LaunchConnect ==
    /\ pc = "startNode"
    /\ validatorsSpawned(node_count)
    /\ api' = RelayKey(1)
    /\ hist' = [ hist EXCEPT !.leaked = IF api = NoKey THEN @ ELSE @ + 1 ]
    /\ pc' = "launch_paras"
    /\ para_i' = 1
    /\ node_i' = 1
    /\ UNCHANGED << tx, node_count, p >>
    /\ UNCHANGED launchKept

\* the binaries addParachainsToGenesis has found present: its loop calls
\* fs.existsSync(resolve(config_dir, parachain.bin)) for every entry of paras
existsObservedFull(visited) == { visited[k] : k \in { j \in 1..Len(visited) : ~visited[j][1] } }
existsObserved(visited) == { visited[k] : k \in 1..Len(visited) }

\* fs.existsSync(bin) in run(): false is possible for a file that was not
\* found present before, or that has been removed since
canBeMissing(isSimple, entry) ==
    \/ << isSimple, entry >> \notin existsObserved(hist.visited)
    \/ hist.diskChanged

\* the environment: another program removes a binary that launch has found
\* present; launch can observe it at its next fs.existsSync(bin) of that file
BinaryRemoved ==
    /\ \/ pc = "launch_paras" /\ para_i <= NumParachains /\ node_i = 1
       \/ pc = "launch_simple" /\ para_i <= Len(config.simpleParachains)
    /\ ~hist.diskChanged
    /\ hist' = [ hist EXCEPT !.diskChanged = TRUE ]
    /\ UNCHANGED << planVars, pc, loopVars, clockVars, p, api >>
    /\ UNCHANGED progVars

\* if (!fs.existsSync(bin)) process.exit(), before the parachain's collators
LaunchParachainBinMissing ==
    /\ pc = "launch_paras"
    /\ para_i <= NumParachains
    /\ node_i = 1
    /\ canBeMissing(FALSE, para_i)
    /\ ExitProcess(ExitDefault, "missing_parachain_binary")
    /\ UNCHANGED exitKept

\* startCollator(bin, wsPort, rpcPort, port, { name, relaySpec, spec, flags,
\* basePath, onlyOneParachainNode }): name, ports, flags and base path are
\* those of the node entry; --force-authoring is added if onlyOneParachainNode
launchOptions(a, b) ==
    [ bin |-> "bin", node |-> << a, b >>, onlyOneParachainNode |-> NumNodes(a) = 1 ]

\* await startCollator(bin, wsPort, ...): the spawn
LaunchStartCollator ==
    /\ pc = "launch_paras"
    /\ para_i <= NumParachains
    /\ node_i <= NumNodes(para_i)
    /\ ~hist.diskChanged
    /\ p' = spawn(p, CollatorKey(para_i, node_i))
    /\ pc' = "launch_collator_ready"
    /\ hist' = [ hist EXCEPT !.keyMissing = NoKey,
                             !.orphans = @ \cup replaced(p, CollatorKey(para_i, node_i)),
                             !.options[CollatorKey(para_i, node_i)] =
                                 Append(@, launchOptions(para_i, node_i)) ]
    /\ UNCHANGED << tx, node_count, para_i, node_i, api >>
    /\ UNCHANGED launchKept

\* p[wsPort].stderr.on("data", ...): startCollator resolves when the chunk
\* holds a readiness line, and stays pending otherwise
LaunchCollatorReady ==
    /\ pc = "launch_collator_ready"
    /\ hist.chunk # NoChunk
    /\ IF collatorReady(hist.chunk)
       THEN /\ pc' = "launch_apply_key"
            /\ hist' = [ hist EXCEPT !.ready = @ \cup { CollatorKey(para_i, node_i) },
                                     !.chunk = NoChunk ]
       ELSE /\ pc' = pc
            /\ hist' = [ hist EXCEPT !.chunk = NoChunk ]
    /\ UNCHANGED << tx, node_count, para_i, node_i, p, api >>
    /\ UNCHANGED launchKept

\* await applyAuraKey(node, config_dir): what it does for each state of the
\* node's key: no auraKey declared, the declared file absent (an error is
\* logged), no rpcPort (an error is logged), or giveKeyToCollator resolves
AuraKeyCases == { "undeclared", "missing", "noRpcPort", "given" }
applyAuraKey(key, case) == IF case = "missing" THEN key ELSE hist.keyMissing

LaunchApplyAuraKey ==
    /\ pc = "launch_apply_key"
    /\ \E case \in AuraKeyCases :
          hist' = [ hist EXCEPT !.keyMissing = applyAuraKey(CollatorKey(para_i, node_i), case) ]
    /\ node_i' = node_i + 1
    /\ pc' = "launch_paras"
    /\ UNCHANGED << tx, node_count, para_i, p, api >>
    /\ UNCHANGED launchKept

\* giveKeyToCollator rejects (curl printed "err"): run() is rejected
LaunchAuraKeyRejected ==
    /\ pc = "launch_apply_key"
    /\ pc' = "rejected"
    /\ UNCHANGED << tx, node_count, para_i, node_i, p, api, hist >>
    /\ UNCHANGED launchKept

\* the loop over parachain.nodes has ended
firstNodeStarted(a, b) == b > 1
allNodesStarted(a, b) == b > NumNodes(a)

\* if (parachain.prepopulated):
\* parachainApi = await connect(parachain.nodes[0].wsPort, {}); a parachain
\* without nodes has no nodes[0], and run() is rejected
LaunchRestoreConnect ==
    /\ pc = "launch_paras"
    /\ para_i <= NumParachains
    /\ allNodesStarted(para_i, node_i)
    /\ ~hist.diskChanged
    /\ IF NumNodes(para_i) = 0
       THEN /\ pc' = "rejected"
            /\ UNCHANGED hist
       ELSE /\ pc' = "launch_restore_read"
            /\ hist' = [ hist EXCEPT !.paraApi = CollatorKey(para_i, 1) ]
    /\ UNCHANGED << tx, node_count, para_i, node_i, p, api >>
    /\ UNCHANGED launchKept

\* head = (await parachainApi.rpc.chain.getBlock()).block.header.toHex();
\* code = (await parachainApi.rpc.state.getStorage(':code')).toHex();
\* await executeTransaction(relayChainApi, alice, sudo(forceSetCurrentHead(resolvedId, head)), true)
LaunchForceHead ==
    /\ pc = "launch_restore_read"
    /\ hist' = [ hist EXCEPT !.forced = << "read" >> ]
    /\ tx' = signAndSend("force_head", TRUE)
    /\ pc' = "tx_wait"
    /\ UNCHANGED << node_count, para_i, node_i, p, api >>
    /\ UNCHANGED launchKept

\* await executeTransaction(relayChainApi, alice, sudo(forceSetCurrentCode(resolvedId, code)), true)
LaunchForceCode ==
    /\ pc = "launch_force_code"
    /\ tx' = signAndSend("force_code", TRUE)
    /\ pc' = "tx_wait"
    /\ UNCHANGED << node_count, para_i, node_i, p, api, hist >>
    /\ UNCHANGED launchKept

\* await parachainApi.disconnect()
LaunchRestoreDisconnect ==
    /\ pc = "launch_restore_disconnect"
    /\ hist' = [ hist EXCEPT !.paraApi = NoKey ]
    /\ pc' = "launch_balance"
    /\ UNCHANGED << tx, node_count, para_i, node_i, p, api >>
    /\ UNCHANGED launchKept

\* if (balance) await setBalance(relayChainApi, account, balance, config.finalization)
LaunchSetBalance ==
    /\ \/ pc = "launch_balance"
       \/ pc = "launch_paras" /\ para_i <= NumParachains /\ allNodesStarted(para_i, node_i)
    /\ ~hist.diskChanged
    /\ \E fin \in BOOLEAN : tx' = signAndSend("balance", fin)
    /\ pc' = "tx_wait"
    /\ UNCHANGED << node_count, para_i, node_i, p, api, hist >>
    /\ UNCHANGED launchKept

\* no balance configured: the next parachain
LaunchParachainDone ==
    /\ \/ pc = "launch_balance"
       \/ pc = "launch_paras" /\ para_i <= NumParachains /\ allNodesStarted(para_i, node_i)
    /\ ~hist.diskChanged
    /\ para_i' = para_i + 1
    /\ node_i' = 1
    /\ pc' = "launch_paras"
    /\ hist' = [ hist EXCEPT !.forced = << >> ]
    /\ UNCHANGED << tx, node_count, p, api >>
    /\ UNCHANGED launchKept

LaunchParachainsDone ==
    /\ pc = "launch_paras"
    /\ para_i > NumParachains
    /\ pc' = "launch_simple"
    /\ para_i' = 1
    /\ UNCHANGED << tx, node_count, node_i, p, api, hist >>
    /\ UNCHANGED launchKept

\* if (!fs.existsSync(bin)) process.exit(), before the simple collator
LaunchSimpleBinMissing ==
    /\ pc = "launch_simple"
    /\ para_i <= Len(config.simpleParachains)
    /\ canBeMissing(TRUE, para_i)
    /\ ExitProcess(ExitDefault, "missing_simple_binary")
    /\ UNCHANGED exitKept

\* await startSimpleCollator(bin, resolvedId, spec, port, skipIdArg)
LaunchStartSimpleCollator ==
    /\ pc = "launch_simple"
    /\ para_i <= Len(config.simpleParachains)
    /\ ~hist.diskChanged
    /\ p' = spawn(p, SimpleKey(para_i))
    /\ pc' = "launch_simple_ready"
    /\ hist' = [ hist EXCEPT !.keyMissing = NoKey,
                             !.orphans = @ \cup replaced(p, SimpleKey(para_i)) ]
    /\ UNCHANGED << tx, node_count, para_i, node_i, api >>
    /\ UNCHANGED launchKept

\* p[port].stderr.on("data", ...)
LaunchSimpleCollatorReady ==
    /\ pc = "launch_simple_ready"
    /\ hist.chunk # NoChunk
    /\ IF simpleCollatorReady(hist.chunk)
       THEN /\ pc' = "launch_simple_balance"
            /\ hist' = [ hist EXCEPT !.ready = @ \cup { SimpleKey(para_i) },
                                     !.chunk = NoChunk ]
       ELSE /\ pc' = pc
            /\ hist' = [ hist EXCEPT !.chunk = NoChunk ]
    /\ UNCHANGED << tx, node_count, para_i, node_i, p, api >>
    /\ UNCHANGED launchKept

LaunchSimpleSetBalance ==
    /\ pc = "launch_simple_balance"
    /\ \E fin \in BOOLEAN :
          tx' = signAndSend("simple_balance", fin)
    /\ pc' = "tx_wait"
    /\ UNCHANGED << node_count, para_i, node_i, p, api, hist >>
    /\ UNCHANGED launchKept

LaunchSimpleDone ==
    /\ pc = "launch_simple_balance"
    /\ para_i' = para_i + 1
    /\ pc' = "launch_simple"
    /\ UNCHANGED << tx, node_count, node_i, p, api, hist >>
    /\ UNCHANGED launchKept

\* await relayChainApi.disconnect(); return config
LaunchDisconnect ==
    /\ pc = "launch_simple"
    /\ para_i > Len(config.simpleParachains)
    /\ api' = NoKey
    /\ specFile' = << >>
    /\ rawSpecFile' = NoRawSpec
    /\ hist' = [ hist EXCEPT !.returned = "config", !.keyMissing = NoKey ]
    /\ pc' = IF mode = "launch" THEN "launched" ELSE "should_wait"
    /\ UNCHANGED << wait, config, mode, exit_code, resolve_round, gen, tx, loopVars, clockVars,
                    p, registeredParachains, genesis, progVars >>

\* ============================================ runThenTryUpgrade: the wait
\* if (should_wait) is false: "Now preparing for runtime upgrade testing..."
WaitSkipped ==
    /\ pc = "should_wait"
    /\ pc' = "baseline_connect"
    /\ UNCHANGED << planVars, loopVars, clockVars, p, api, hist >>
    /\ UNCHANGED progVars

\* let is_ready = false; prompt.run().then(...); process.on("SIGUSR1", ...)
WaitBegin ==
    /\ pc = "should_wait"
    /\ wait' = [ prompt |-> "open", is_ready |-> FALSE, events |-> {} ]
    /\ pc' = "waiting"
    /\ UNCHANGED << config, registeredParachains, genesis, mode, exit_code, resolve_round,
                    gen, specFile, rawSpecFile, tx, loopVars, clockVars, p, api, hist >>
    /\ UNCHANGED progVars

\* the user submits the prompt: prompt.run() resolves and its then() callback
\* sets is_ready
PromptSubmitted ==
    /\ pc = "waiting"
    /\ wait.prompt = "open"
    /\ wait' = [ prompt |-> "submitted", is_ready |-> TRUE,
                 events |-> wait.events \cup { "prompt" } ]
    /\ UNCHANGED << config, registeredParachains, genesis, mode, exit_code, resolve_round,
                    gen, specFile, rawSpecFile, tx, pc, loopVars, clockVars, p, api, hist >>
    /\ UNCHANGED progVars

\* process.on("SIGUSR1", ...): prompt.submit(); is_ready = true
SigUsr1 ==
    /\ pc = "waiting"
    /\ "SIGUSR1" \notin wait.events
    /\ wait' = [ prompt |-> "submitted", is_ready |-> TRUE,
                 events |-> wait.events \cup { "SIGUSR1" } ]
    /\ UNCHANGED << config, registeredParachains, genesis, mode, exit_code, resolve_round,
                    gen, specFile, rawSpecFile, tx, pc, loopVars, clockVars, p, api, hist >>
    /\ UNCHANGED progVars

\* while (!is_ready) await delay(1000): the loop ends, and with it the block
leaveAlways(w) == TRUE
leaveLoop(w) == w.is_ready

WaitReleased ==
    /\ pc = "waiting"
    /\ leaveLoop(wait)
    /\ wait' = NoWait
    /\ pc' = "baseline_connect"
    /\ UNCHANGED << config, registeredParachains, genesis, mode, exit_code, resolve_round,
                    gen, specFile, rawSpecFile, tx, loopVars, clockVars, p, api, hist >>
    /\ UNCHANGED progVars

\* ====================================================== executeTransaction
\* the statement that follows the await of each transaction
afterTx(kind) ==
    CASE kind = "balance" -> "launch_paras"
      [] kind = "force_head" -> "launch_force_code"
      [] kind = "force_code" -> "launch_restore_disconnect"
      [] kind = "simple_balance" -> "launch_simple"
      [] kind = "authorize" -> "para_upgrade_enact"
      [] kind = "enact" -> "para_upgrade_disconnect"
      [] kind = "relay_upgrade" -> "relay_upgrade_disconnect"

\* reject(`Transaction Error`): the awaiting function is abandoned
ignoreTxError(kind) == afterTx(kind)
onTxError(kind) == "rejected"

txKept == << wait, config, mode, exit_code, resolve_round, gen, specFile, rawSpecFile,
             node_count, clockVars, p, api, registeredParachains, genesis, progVars >>

\* resolvePromise() and reject(): a promise is settled by the first of them
settleAlways(state, outcome) == outcome
settle(state, outcome) == IF state = "pending" THEN outcome ELSE state

\* unsub(); resolvePromise(): the caller goes on after its await
TxResolve ==
    /\ pc' = afterTx(tx.kind)
    /\ tx' = NoTx
    /\ para_i' = IF tx.kind \in { "balance", "simple_balance" } THEN para_i + 1 ELSE para_i
    /\ node_i' = IF tx.kind = "balance" THEN 1 ELSE node_i
    /\ hist' = CASE tx.kind = "authorize" -> [ hist EXCEPT !.authorized = @ \cup { para_i } ]
                 [] tx.kind = "force_head" -> [ hist EXCEPT !.forced = Append(@, "head") ]
                 [] tx.kind = "force_code" -> [ hist EXCEPT !.forced = Append(@, "code") ]
                 [] tx.kind = "balance" -> [ hist EXCEPT !.forced = << >> ]
                 [] tx.kind = "enact" -> [ hist EXCEPT !.upgraded = @ \cup { para_i } ]
                 [] OTHER -> hist

\* result.status.isInBlock
TxInBlock ==
    /\ pc = "tx_wait"
    /\ tx.status = "sent"
    /\ IF tx.finalization
       THEN /\ tx' = [ tx EXCEPT !.status = "inBlock" ]
            /\ UNCHANGED << pc, para_i, node_i, hist >>
       ELSE TxResolve
    /\ UNCHANGED txKept

\* result.status.isFinalized
TxFinalized ==
    /\ pc = "tx_wait"
    /\ tx.status = "inBlock"
    /\ TxResolve
    /\ UNCHANGED txKept

\* result.isError: reject(`Transaction Error`), and the subscription stays
TxError ==
    /\ pc = "tx_wait"
    /\ tx.status \in { "sent", "inBlock" }
    /\ pc' = onTxError(tx.kind)
    /\ tx' = [ tx EXCEPT !.status = "error", !.promise = settle(@, "rejected") ]
    /\ hist' = [ hist EXCEPT !.txError = << tx.kind, para_i >> ]
    /\ UNCHANGED << para_i, node_i >>
    /\ UNCHANGED txKept

\* a status that arrives after the rejection: the callback still runs, and
\* calls resolvePromise() on inclusion
TxLateStatus ==
    /\ tx.status = "error"
    /\ tx.promise # "pending"
    /\ tx' = [ tx EXCEPT !.status = "late", !.promise = settle(@, "resolved") ]
    /\ UNCHANGED << pc, para_i, node_i, hist >>
    /\ UNCHANGED txKept

\* ------------------------------------------------------ the environment
\* the collator whose readiness the program is suspended on
awaited ==
    CASE pc \in { "launch_collator_ready", "collator_ready" } -> CollatorKey(para_i, node_i)
      [] pc = "launch_simple_ready" -> SimpleKey(para_i)
      [] OTHER -> NoKey

\* the awaited collator writes a chunk to its stderr
CollatorEmits ==
    /\ awaited # NoKey
    /\ p[awaited] = "live"
    /\ hist.chunk = NoChunk
    /\ \E message \in Chunks : hist' = [ hist EXCEPT !.chunk = message ]
    /\ UNCHANGED << planVars, pc, loopVars, clockVars, p, api >>
    /\ UNCHANGED progVars

\* the awaited collator exits on its own before any readiness line
CollatorExitsUnready ==
    /\ awaited # NoKey
    /\ p[awaited] = "live"
    /\ hist.chunk = NoChunk
    /\ p' = [ p EXCEPT ![awaited] = "exited" ]
    /\ UNCHANGED << planVars, pc, loopVars, clockVars, api, hist >>
    /\ UNCHANGED progVars

\* a process that was sent SIGINT exits on its own schedule
ProcessExits ==
    /\ pc # "exited"
    /\ \E k \in Keys :
          /\ p[k] = "signalled"
          /\ p' = [ p EXCEPT ![k] = "exited" ]
    /\ UNCHANGED << planVars, pc, loopVars, clockVars, api, hist >>
    /\ UNCHANGED progVars

\* waitWithTimer: one await delay(1000) of the countdown
Tick ==
    /\ timer > 0
    /\ timer' = timer - 1
    /\ now' = now + TimerStep
    /\ UNCHANGED << planVars, pc, loopVars, p, api, hist >>
    /\ UNCHANGED progVars


\* ========================================================== upgrade test
\* runThenTryUpgrade(), after run() returned the resolved plan.

\* api = await connect(port, types): the variable is assigned, whatever it held
Connect(from, to, endpoint) ==
    /\ pc = from
    /\ timer = 0
    /\ api' = endpoint
    /\ hist' = [ hist EXCEPT !.leaked = IF api = NoKey THEN @ ELSE @ + 1 ]
    /\ pc' = to
    /\ UNCHANGED << planVars, loopVars, timer, now, p >>
    /\ UNCHANGED progVars

\* await api.disconnect(); await waitForExtraOutput()
waitForExtraOutputOnly(from, to) ==
    /\ pc = from
    /\ api' = api
    /\ now' = now + ExtraOutputDelay
    /\ pc' = to
Disconnect(from, to) ==
    /\ pc = from
    /\ api' = NoKey
    /\ now' = now + ExtraOutputDelay
    /\ pc' = to

\* --- baseline: "Fetch information on the relay chain specifics"
BaselineConnect == Connect("baseline_connect", "baseline_read", RelayKey(1))

BaselineRead ==
    /\ pc = "baseline_read"
    /\ mode = "upgrade"
    /\ \E info \in RelayInfos :
          /\ relay_old_version' = LaunchVersion
          /\ epoch_time' = info.epochLength * info.blockTime
    /\ pc' = "baseline_disconnect"
    /\ hist' = [ hist EXCEPT !.baselineRead = TRUE ]
    /\ UNCHANGED << planVars, loopVars, timer, now, p, api >>
    /\ UNCHANGED << postVars, parachains_info, verVars >>

BaselineDisconnect ==
    /\ mode = "upgrade"
    /\ Disconnect("baseline_disconnect", "relay_loop")
    /\ node_count' = 0
    /\ hist' = [ hist EXCEPT !.phaseStart = now' ]
    /\ UNCHANGED << planVars, para_i, node_i, timer, p >>
    /\ UNCHANGED progVars

\* --- "Stop the relay nodes one by one with a delay equal to or higher than
\*      the epoch time"
RelayBeginWait ==
    /\ pc = "relay_loop"
    /\ node_count < NumRelay
    /\ node_count' = node_count + 1
    /\ timer' = SecondsTotal(epoch_time)
    /\ pc' = "relay_wait"
    /\ UNCHANGED << planVars, para_i, node_i, now, p, api, hist >>
    /\ UNCHANGED progVars

RelayKill ==
    /\ pc = "relay_wait"
    /\ timer = 0
    /\ p' = killProcess(p, RelayKey(node_count))
    /\ pc' = "relay_start"
    /\ hist' = [ hist EXCEPT !.stopped = @ \cup { RelayKey(node_count) } ]
    /\ UNCHANGED << planVars, loopVars, timer, now, api >>
    /\ UNCHANGED progVars

RelayStart ==
    /\ pc = "relay_start"
    /\ p' = spawn(p, RelayKey(node_count))
    /\ pc' = "relay_loop"
    /\ hist' = [ hist EXCEPT !.restartAt = Append(@, now),
                             !.restarted = @ \cup { RelayKey(node_count) },
                             !.orphans = @ \cup replaced(p, RelayKey(node_count)) ]
    /\ UNCHANGED << planVars, loopVars, timer, now, api >>
    /\ UNCHANGED progVars

RelayLoopDone ==
    /\ pc = "relay_loop"
    /\ node_count = NumRelay
    /\ pc' = "para_loop"
    /\ para_i' = 1
    /\ node_i' = 1
    /\ UNCHANGED << planVars, node_count, timer, now, p, api, hist >>
    /\ UNCHANGED progVars

\* --- "Then restart each parachain"
\* if (parachain.nodes.length > 0): the parachain gets an UpgradeSession
moreThanOneNode(a) == NumNodes(a) > 1
hasNodes(a) == NumNodes(a) > 0

SessionConnect ==
    /\ para_i <= NumParachains
    /\ hasNodes(para_i)
    /\ Connect("para_loop", "session_read", CollatorKey(para_i, 1))

SessionRead ==
    /\ pc = "session_read"
    /\ parachains_info' = [ parachains_info EXCEPT ![ResolvedId(para_i)] =
                              [ exists |-> TRUE,
                                first_node |-> CollatorKey(para_i, 1),
                                old_version |-> LaunchVersion,
                                has_updated |-> FALSE ] ]
    /\ pc' = "session_disconnect"
    /\ hist' = [ hist EXCEPT !.sessionRead = @ \cup { para_i } ]
    /\ UNCHANGED << planVars, loopVars, timer, now, p, api >>
    /\ UNCHANGED << baseVars, postVars, verVars >>

SessionDisconnect ==
    /\ Disconnect("session_disconnect", "collator_loop")
    /\ node_i' = 1
    /\ UNCHANGED << planVars, node_count, para_i, timer, p, hist >>
    /\ UNCHANGED progVars

SessionNone ==
    /\ pc = "para_loop"
    /\ para_i <= NumParachains
    /\ ~hasNodes(para_i)
    /\ pc' = "collator_loop"
    /\ node_i' = 1
    /\ UNCHANGED << planVars, node_count, para_i, timer, now, p, api, hist >>
    /\ UNCHANGED progVars

\* "Stop and restart each node": for (const node of parachain.nodes)
onlyFirstNode(a, b) == b > 1
nodesDone(a, b) == b > NumNodes(a)

CollatorKill ==
    /\ pc = "collator_loop"
    /\ ~nodesDone(para_i, node_i)
    /\ p' = killProcess(p, CollatorKey(para_i, node_i))
    /\ pc' = "collator_start"
    /\ hist' = [ hist EXCEPT !.stopped = @ \cup { CollatorKey(para_i, node_i) } ]
    /\ UNCHANGED << planVars, loopVars, timer, now, api >>
    /\ UNCHANGED progVars

\* await startCollator(new_bin, wsPort, rpcPort, port, { name, relaySpec: spec,
\* flags, spec: resolvedSpec, basePath,
\* onlyOneParachainNode: config.parachains.length === 1 })
restartOptions(a, b) ==
    [ bin |-> "upgradeBin", node |-> << a, b >>, onlyOneParachainNode |-> NumParachains = 1 ]

CollatorStart ==
    /\ pc = "collator_start"
    /\ p' = spawn(p, CollatorKey(para_i, node_i))
    /\ pc' = "collator_ready"
    /\ hist' = [ hist EXCEPT !.restarted = @ \cup { CollatorKey(para_i, node_i) },
                             !.keyMissing = NoKey,
                             !.orphans = @ \cup replaced(p, CollatorKey(para_i, node_i)),
                             !.options[CollatorKey(para_i, node_i)] =
                                 Append(@, restartOptions(para_i, node_i)) ]
    /\ UNCHANGED << planVars, loopVars, timer, now, api >>
    /\ UNCHANGED progVars

\* startCollator resolves at a readiness line; then
\* await waitWithTimer(parachain_block_time)
CollatorReady ==
    /\ pc = "collator_ready"
    /\ hist.chunk # NoChunk
    /\ IF collatorReady(hist.chunk)
       THEN /\ timer' = SecondsTotal(parachain_block_time)
            /\ pc' = "collator_wait"
       ELSE /\ UNCHANGED << timer, pc >>
    /\ hist' = [ hist EXCEPT !.chunk = NoChunk ]
    /\ UNCHANGED << planVars, loopVars, now, p, api >>
    /\ UNCHANGED progVars

CollatorWaited ==
    /\ pc = "collator_wait"
    /\ timer = 0
    /\ pc' = "collator_apply_key"
    /\ UNCHANGED << planVars, loopVars, timer, now, p, api, hist >>
    /\ UNCHANGED progVars

\* await applyAuraKey(node, config_dir)
CollatorApplyAuraKey ==
    /\ pc = "collator_apply_key"
    /\ \E case \in AuraKeyCases :
          hist' = [ hist EXCEPT !.keyMissing = applyAuraKey(CollatorKey(para_i, node_i), case) ]
    /\ node_i' = node_i + 1
    /\ pc' = "collator_loop"
    /\ UNCHANGED << planVars, node_count, para_i, timer, now, p, api >>
    /\ UNCHANGED progVars

CollatorAuraKeyRejected ==
    /\ pc = "collator_apply_key"
    /\ pc' = "rejected"
    /\ UNCHANGED << planVars, loopVars, timer, now, p, api, hist >>
    /\ UNCHANGED progVars

CollatorLoopDone ==
    /\ pc = "collator_loop"
    /\ nodesDone(para_i, node_i)
    /\ para_i' = para_i + 1
    /\ pc' = "para_loop"
    /\ UNCHANGED << planVars, node_count, node_i, timer, now, p, api, hist >>
    /\ UNCHANGED progVars

\* "Starting timeout for the next epoch before upgrading the relay runtime code"
noEpochWait(time) == 0
epochWait(time) == SecondsTotal(time)

ParaLoopDone ==
    /\ pc = "para_loop"
    /\ mode = "upgrade"
    /\ para_i > NumParachains
    /\ timer' = epochWait(epoch_time)
    /\ pc' = "relay_upgrade_wait"
    /\ hist' = [ hist EXCEPT !.keyMissing = NoKey ]
    /\ UNCHANGED << planVars, loopVars, now, p, api >>
    /\ UNCHANGED progVars

\* --- the relay runtime upgrade
RelayUpgradeConnect == Connect("relay_upgrade_wait", "relay_upgrade_submit", RelayKey(1))

\* upgradeRelayRuntime(api, wasm, finalization, ...): it calls
\* executeTransaction(api, alice, sudoUncheckedWeight(setCode)) without its
\* finalization argument, whose default is false
upgradeRelayRuntimeFinal(finalization) == signAndSend("relay_upgrade", finalization)
upgradeRelayRuntime(finalization) == signAndSend("relay_upgrade", FALSE)

\* await upgradeRelayRuntime(relay_chain_api, upgraded_relay_chain_wasm, true, ...)
RelayUpgradeSubmit ==
    /\ pc = "relay_upgrade_submit"
    /\ tx' = upgradeRelayRuntime(TRUE)
    /\ pc' = "tx_wait"
    /\ hist' = [ hist EXCEPT !.relaySubmitted = TRUE ]
    /\ UNCHANGED << config, registeredParachains, genesis, runVars, loopVars, timer, now, p, api >>
    /\ UNCHANGED progVars

RelayUpgradeDisconnect ==
    /\ Disconnect("relay_upgrade_disconnect", "relay_info_connect")
    /\ UNCHANGED << planVars, loopVars, timer, p, hist >>
    /\ UNCHANGED progVars

\* "get the renewed relay info"
RelayInfoConnect == Connect("relay_info_connect", "relay_info_read", RelayKey(1))

RelayInfoRead ==
    /\ pc = "relay_info_read"
    /\ \E info \in RelayInfos, v \in Versions :
          /\ relay_new_version' = v
          /\ new_epoch_length' = info.epochLength
          /\ new_relay_block_time' = info.blockTime
    /\ pc' = "relay_info_disconnect"
    /\ UNCHANGED << planVars, loopVars, timer, now, p, api, hist >>
    /\ UNCHANGED << baseVars, code_validation_delay, parachains_info, verVars >>

RelayInfoDisconnect ==
    /\ Disconnect("relay_info_disconnect", "delay_connect")
    /\ UNCHANGED << planVars, loopVars, timer, p, hist >>
    /\ UNCHANGED progVars

\* "get the runtime upgrade validation delay for parachains"
DelayConnect == Connect("delay_connect", "delay_read", RelayKey(1))

DelayRead ==
    /\ pc = "delay_read"
    /\ \E d \in ValidationDelays :
          code_validation_delay' = new_relay_block_time * d
    /\ pc' = "delay_disconnect"
    /\ UNCHANGED << planVars, loopVars, timer, now, p, api, hist >>
    /\ UNCHANGED << baseVars, relay_new_version, new_epoch_length,
                    new_relay_block_time, parachains_info, verVars >>

DelayDisconnect ==
    /\ mode = "upgrade"
    /\ Disconnect("delay_disconnect", "relay_verdict")
    /\ UNCHANGED << planVars, loopVars, timer, p, hist >>
    /\ UNCHANGED progVars

\* if (relay_old_version != relay_new_version) ... else relay_upgrade_failed = true;
\* then the wait before the parachain upgrades, whatever the outcome
abortOnRelayFailure(failed) == IF failed THEN "summary" ELSE "para_upgrade_wait"
afterRelayVerdict(failed) == "para_upgrade_wait"

RelayVerdict ==
    /\ pc = "relay_verdict"
    /\ relay_upgrade_failed' = (relay_old_version = relay_new_version)
    /\ pc' = afterRelayVerdict(relay_upgrade_failed')
    /\ timer' = SecondsTotal(new_epoch_length * new_relay_block_time)
    /\ hist' = [ hist EXCEPT !.relayVerdict = TRUE, !.waitFrom = now ]
    /\ UNCHANGED << planVars, loopVars, now, p, api >>
    /\ UNCHANGED << baseVars, postVars, parachains_info, parachains_upgrade_failed,
                    try_n, first_pass, spec_version, report >>

\* --- "For each parachain, connect, authorize and upgrade its runtime"
ParaUpgradeBegin ==
    /\ pc = "para_upgrade_wait"
    /\ timer = 0
    /\ pc' = "para_upgrade_loop"
    /\ para_i' = 1
    /\ UNCHANGED << planVars, node_count, node_i, timer, now, p, api, hist >>
    /\ UNCHANGED progVars

Session(a) == parachains_info[ResolvedId(a)]

ParaUpgradeConnect ==
    /\ pc = "para_upgrade_loop"
    /\ para_i <= NumParachains
    /\ Session(para_i).exists
    /\ Connect("para_upgrade_loop", "para_upgrade_submit", Session(para_i).first_node)

ParaUpgradeSkip ==
    /\ pc = "para_upgrade_loop"
    /\ para_i <= NumParachains
    /\ ~Session(para_i).exists
    /\ para_i' = para_i + 1
    /\ UNCHANGED << planVars, pc, node_count, node_i, timer, now, p, api, hist >>
    /\ UNCHANGED progVars

\* upgradeParachainRuntime(api, wasm, finalization, ...): authorizeUpgrade is
\* submitted with executeTransaction(..., finalization)
enactUnauthorized(finalization) == signAndSend("enact", FALSE)
authorizeUpgrade(finalization) == signAndSend("authorize", finalization)

\* await upgradeParachainRuntime(parachain_api, wasm, true, ...)
ParaUpgradeSubmit ==
    /\ pc = "para_upgrade_submit"
    /\ tx' = authorizeUpgrade(TRUE)
    /\ pc' = "tx_wait"
    /\ UNCHANGED << config, registeredParachains, genesis, runVars, loopVars, timer, now, p, api, hist >>
    /\ UNCHANGED progVars

\* upgradeParachainRuntime: enactAuthorizedUpgrade, with the default finalization
ParaUpgradeEnact ==
    /\ pc = "para_upgrade_enact"
    /\ tx' = signAndSend("enact", FALSE)
    /\ pc' = "tx_wait"
    /\ UNCHANGED << config, registeredParachains, genesis, runVars, loopVars, timer, now, p, api, hist >>
    /\ UNCHANGED progVars

ParaUpgradeDisconnect ==
    /\ Disconnect("para_upgrade_disconnect", "para_upgrade_loop")
    /\ para_i' = para_i + 1
    /\ UNCHANGED << planVars, node_count, node_i, timer, p, hist >>
    /\ UNCHANGED progVars

\* parachains_upgrade_failed = true; let first_pass = true; try_n = 0
ParaUpgradeDone ==
    /\ pc = "para_upgrade_loop"
    /\ para_i > NumParachains
    /\ parachains_upgrade_failed' = TRUE
    /\ first_pass' = TRUE
    /\ try_n' = 0
    /\ pc' = "verify_head"
    /\ UNCHANGED << planVars, loopVars, timer, now, p, api, hist >>
    /\ UNCHANGED << baseVars, postVars, parachains_info, relay_upgrade_failed,
                    spec_version, report >>

\* --- "Ping the chains for the runtime upgrade after the minimal time and
\*      then every few blocks"
\* for (let try_n = 0; try_n < 3 && parachains_upgrade_failed; try_n++)
\* if (first_pass) waitWithTimer(code_validation_delay)
\* else waitWithTimer(parachain_block_time * 3)
passWaitAlike(first, delay) == delay
passWait(first, delay) == IF first THEN delay ELSE parachain_block_time * 3

VerifyBeginPass ==
    /\ pc = "verify_head"
    /\ try_n < MaxTries
    /\ parachains_upgrade_failed
    /\ timer' = SecondsTotal(passWait(first_pass, code_validation_delay))
    /\ first_pass' = FALSE
    /\ pc' = "verify_wait"
    /\ hist' = [ hist EXCEPT !.passes = @ + 1, !.waitFrom = now ]
    /\ UNCHANGED << planVars, loopVars, now, p, api >>
    /\ UNCHANGED << baseVars, postVars, parachains_info, relay_upgrade_failed,
                    parachains_upgrade_failed, try_n, spec_version, report >>

\* the wait is over: parachains_upgrade_failed = false, then the parachains
VerifyPassStart ==
    /\ pc = "verify_wait"
    /\ timer = 0
    /\ parachains_upgrade_failed' = FALSE
    /\ para_i' = 1
    /\ pc' = "verify_loop"
    /\ hist' = [ hist EXCEPT
                   !.pending = { id \in ParaIds : parachains_info[id].exists
                                                  /\ ~parachains_info[id].has_updated },
                   !.reads = {} ]
    /\ UNCHANGED << planVars, node_count, node_i, timer, now, p, api >>
    /\ UNCHANGED << baseVars, postVars, parachains_info, relay_upgrade_failed,
                    try_n, first_pass, spec_version, report >>

\* if (parachains_info[resolvedId].has_updated) continue;
neverSkip(s) == FALSE
skipUpdated(s) == s.has_updated

\* parachains_info[resolvedId] is undefined for a parachain without nodes whose
\* id no other entry gave a session: reading .has_updated of it throws
VerifyThrows ==
    /\ pc = "verify_loop"
    /\ para_i <= NumParachains
    /\ ~Session(para_i).exists
    /\ pc' = "crashed"
    /\ UNCHANGED << planVars, loopVars, timer, now, p, api, hist >>
    /\ UNCHANGED progVars

VerifySkip ==
    /\ pc = "verify_loop"
    /\ para_i <= NumParachains
    /\ Session(para_i).exists
    /\ skipUpdated(Session(para_i))
    /\ para_i' = para_i + 1
    /\ UNCHANGED << planVars, pc, node_count, node_i, timer, now, p, api, hist >>
    /\ UNCHANGED progVars

VerifyConnect ==
    /\ pc = "verify_loop"
    /\ para_i <= NumParachains
    /\ Session(para_i).exists
    /\ ~skipUpdated(Session(para_i))
    /\ Connect("verify_loop", "verify_read", Session(para_i).first_node)

\* const spec_version = await getSpecVersion(parachain_api)
VerifyRead ==
    /\ pc = "verify_read"
    /\ \E v \in Versions : spec_version' = v
    /\ pc' = "verify_disconnect"
    /\ hist' = [ hist EXCEPT !.reads = @ \cup { ResolvedId(para_i) } ]
    /\ UNCHANGED << planVars, loopVars, timer, now, p, api >>
    /\ UNCHANGED << baseVars, postVars, parachains_info, relay_upgrade_failed,
                    parachains_upgrade_failed, try_n, first_pass, report >>

\* if (spec_version != old_version) has_updated = true
\* else parachains_upgrade_failed = true
resetOnFailure(info, id, v) ==
    IF v # info[id].old_version
    THEN [ info EXCEPT ![id].has_updated = TRUE ]
    ELSE [ i \in ParaIds |-> [ info[i] EXCEPT !.has_updated = FALSE ] ]
recordOutcome(info, id, v) ==
    IF v # info[id].old_version
    THEN [ info EXCEPT ![id].has_updated = TRUE ]
    ELSE info

VerifyOutcome ==
    /\ Disconnect("verify_disconnect", "verify_loop")
    /\ parachains_info' = recordOutcome(parachains_info, ResolvedId(para_i), spec_version)
    /\ parachains_upgrade_failed' =
          IF spec_version # Session(para_i).old_version
          THEN parachains_upgrade_failed
          ELSE TRUE
    /\ para_i' = para_i + 1
    /\ UNCHANGED << planVars, node_count, node_i, timer, p, hist >>
    /\ UNCHANGED << baseVars, postVars, relay_upgrade_failed, try_n, first_pass,
                    spec_version, report >>

\* the end of a pass: try_n++
VerifyPassEnd ==
    /\ pc = "verify_loop"
    /\ para_i > NumParachains
    /\ try_n' = try_n + 1
    /\ pc' = "verify_head"
    /\ UNCHANGED << planVars, loopVars, timer, now, p, api, hist >>
    /\ UNCHANGED << baseVars, postVars, parachains_info, relay_upgrade_failed,
                    parachains_upgrade_failed, first_pass, spec_version, report >>

VerifyLoopExit ==
    /\ pc = "verify_head"
    /\ ~(try_n < MaxTries /\ parachains_upgrade_failed)
    /\ pc' = "summary"
    /\ UNCHANGED << planVars, loopVars, timer, now, p, api, hist >>
    /\ UNCHANGED progVars

\* if (parachains_upgrade_failed || relay_upgrade_failed) FAILED else COMPLETE
Summary ==
    /\ pc = "summary"
    /\ report' = IF parachains_upgrade_failed \/ relay_upgrade_failed
                 THEN "failed" ELSE "complete"
    /\ pc' = "done"
    /\ UNCHANGED << planVars, loopVars, timer, now, p, api, hist >>
    /\ UNCHANGED << baseVars, postVars, parachains_info, relay_upgrade_failed,
                    parachains_upgrade_failed, try_n, first_pass, spec_version >>

\* ----------------------------------------------------------- specification
Next ==
    \/ CliNoConfigFile
    \/ CliStart
    \/ NormalExit
    \/ UpgradeCheck
    \/ UpgradeSpecFiles
    \/ ResolveGenerateSpec
    \/ ResolveGenerateRaw
    \/ ResolveRawClosed
    \/ ResolveEditSpec
    \/ ResolveEditThrows
    \/ ResolveKeepId
    \/ ResolveExplicitId
    \/ ResolveReadSpec
    \/ ResolveReadClosed
    \/ ResolveSimple
    \/ RunCheck
    \/ RelayBinMissing
    \/ GenerateChainSpec
    \/ GenerateChainSpecClosed
    \/ ClearAuthorities
    \/ AddAuthority
    \/ AuthoritiesDone
    \/ ChangeGenesisConfig
    \/ AddParachainToGenesis
    \/ GenesisBinMissing
    \/ GenesisExportFails
    \/ GenesisDone
    \/ AddHrmpChannelsToGenesis
    \/ AddBootNodes
    \/ ChainInitializer
    \/ GenerateChainSpecRaw
    \/ GenerateChainSpecRawClosed
    \/ ChainRawInitializer
    \/ LaunchStartNode
    \/ LaunchConnect
    \/ LaunchParachainBinMissing
    \/ LaunchStartCollator
    \/ LaunchCollatorReady
    \/ LaunchApplyAuraKey
    \/ LaunchAuraKeyRejected
    \/ BinaryRemoved
    \/ LaunchRestoreConnect
    \/ LaunchForceHead
    \/ LaunchForceCode
    \/ LaunchRestoreDisconnect
    \/ LaunchSetBalance
    \/ LaunchParachainDone
    \/ LaunchParachainsDone
    \/ LaunchSimpleBinMissing
    \/ LaunchStartSimpleCollator
    \/ LaunchSimpleCollatorReady
    \/ LaunchSimpleSetBalance
    \/ LaunchSimpleDone
    \/ LaunchDisconnect
    \/ WaitSkipped
    \/ WaitBegin
    \/ PromptSubmitted
    \/ SigUsr1
    \/ WaitReleased
    \/ TxInBlock
    \/ TxFinalized
    \/ TxError
    \/ TxLateStatus
    \/ ProcessExits
    \/ CollatorEmits
    \/ CollatorExitsUnready
    \/ Tick
    \/ BaselineConnect
    \/ BaselineRead
    \/ BaselineDisconnect
    \/ RelayBeginWait
    \/ RelayKill
    \/ RelayStart
    \/ RelayLoopDone
    \/ SessionConnect
    \/ SessionRead
    \/ SessionDisconnect
    \/ SessionNone
    \/ CollatorKill
    \/ CollatorStart
    \/ CollatorReady
    \/ CollatorWaited
    \/ CollatorApplyAuraKey
    \/ CollatorAuraKeyRejected
    \/ CollatorLoopDone
    \/ ParaLoopDone
    \/ RelayUpgradeConnect
    \/ RelayUpgradeSubmit
    \/ RelayUpgradeDisconnect
    \/ RelayInfoConnect
    \/ RelayInfoRead
    \/ RelayInfoDisconnect
    \/ DelayConnect
    \/ DelayRead
    \/ DelayDisconnect
    \/ RelayVerdict
    \/ ParaUpgradeBegin
    \/ ParaUpgradeConnect
    \/ ParaUpgradeSkip
    \/ ParaUpgradeSubmit
    \/ ParaUpgradeEnact
    \/ ParaUpgradeDisconnect
    \/ ParaUpgradeDone
    \/ VerifyBeginPass
    \/ VerifyPassStart
    \/ VerifyThrows
    \/ VerifySkip
    \/ VerifyConnect
    \/ VerifyRead
    \/ VerifyOutcome
    \/ VerifyPassEnd
    \/ VerifyLoopExit
    \/ Summary

Spec == Init /\ [][Next]_vars

\* process.on("SIGINT", ...): ctrl+c, at any moment after the hooks were registered
Interrupt ==
    /\ hist.handlers
    /\ pc # "exited"
    /\ ExitProcess(ExitInterrupt, "interrupt")
    /\ UNCHANGED exitKept

\* the program together with the signal its user may send
Teardown == Init /\ [][Next \/ Interrupt]_vars

\* ============================================ runThenTryUpgradeParachains
\* the function differs from runThenTryUpgrade in the steps below; every
\* other step is the same code and the same action
\* else if (argv["test-upgrade-parachains"]) runThenTryUpgradeParachains(...)
CliStartParachains ==
    /\ pc = "cli"
    /\ mode' = "upgrade_parachains"
    /\ pc' = "up_check"
    /\ hist' = [ hist EXCEPT !.handlers = TRUE ]
    /\ UNCHANGED << wait, config, exit_code, resolve_round, gen, specFile, rawSpecFile, tx,
                    loopVars, clockVars, p, api, registeredParachains, genesis, progVars >>

\* const { epochLength, blockTime } = await getRelayInfo(relay_chain_api)
ParachainsBaselineRead ==
    /\ pc = "baseline_read"
    /\ mode = "upgrade_parachains"
    /\ \E info \in RelayInfos :
          /\ epoch_time' = info.epochLength * info.blockTime
          /\ new_relay_block_time' = info.blockTime
    /\ pc' = "baseline_disconnect"
    /\ hist' = [ hist EXCEPT !.baselineRead = TRUE ]
    /\ UNCHANGED << planVars, loopVars, timer, now, p, api >>
    /\ UNCHANGED << relay_old_version, relay_new_version, new_epoch_length,
                    code_validation_delay, parachains_info, verVars >>

\* the loop over config.parachains follows the baseline at once
restartRelayFirst == "relay_loop"
restartFrom == "para_loop"

ParachainsBaselineDisconnect ==
    /\ mode = "upgrade_parachains"
    /\ Disconnect("baseline_disconnect", restartFrom)
    /\ node_count' = 0
    /\ para_i' = 1
    /\ node_i' = 1
    /\ UNCHANGED << planVars, timer, p, hist >>
    /\ UNCHANGED progVars

\* "All parachain collators restarted with the new binaries.": the connection
\* for getCodeValidationDelay comes next
ParachainsLoopDone ==
    /\ pc = "para_loop"
    /\ mode = "upgrade_parachains"
    /\ para_i > NumParachains
    /\ pc' = "delay_connect"
    /\ hist' = [ hist EXCEPT !.keyMissing = NoKey ]
    /\ UNCHANGED << planVars, loopVars, timer, now, p, api >>
    /\ UNCHANGED progVars

\* await relay_chain_api.disconnect(); await waitForExtraOutput();
\* await waitWithTimer(epoch_time)
ParachainsDelayDisconnect ==
    /\ mode = "upgrade_parachains"
    /\ Disconnect("delay_disconnect", "para_upgrade_wait")
    /\ timer' = SecondsTotal(epoch_time)
    /\ UNCHANGED << planVars, loopVars, p, hist >>
    /\ UNCHANGED progVars

\* the program with the parachains-only upgrade test among its commands
ParachainsOnly ==
    Init /\ [][Next \/ CliStartParachains \/ ParachainsBaselineRead
                   \/ ParachainsBaselineDisconnect \/ ParachainsLoopDone
                   \/ ParachainsDelayDisconnect]_vars

\* ================================================================ claims
Launched == hist.returned = "config"
Crashed == pc = "crashed"
InVerifyPass == pc \in { "verify_loop", "verify_read", "verify_disconnect" }
AllCollators == UNION { { CollatorKey(a, b) : b \in 1..NumNodes(a) } : a \in 1..NumParachains }
Sessions == { id \in ParaIds : parachains_info[id].exists }

\* C1: once addParachainsToGenesis has gone through the full and the simple
\* parachains, every id that some entry resolves to was registered in genesis
\* by exactly one call of addGenesisParachain, and no other id was; while the
\* loop runs no id is registered twice.
C1_OneRegistrationPerId ==
    /\ \A id \in ParaIds : genesis[id] <= 1
    /\ hist.genesisDone =>
          \A id \in ParaIds :
             genesis[id] = IF \E k \in DOMAIN paras : paras[k].resolvedId = id THEN 1 ELSE 0

\* two entries, one full and one simple, resolve to the same id
C1_Witness ==
    /\ hist.genesisDone
    /\ \E k1, k2 \in DOMAIN paras :
          /\ k1 < k2
          /\ ~paras[k1].isSimple
          /\ paras[k2].isSimple
          /\ paras[k1].resolvedId = paras[k2].resolvedId
          /\ genesis[paras[k1].resolvedId] = 1

\* C2: during the upgrade test at most one relay node is without a running
\* process, and only the node the rolling restart is replacing right now:
\* whenever a relay node is stopped, every other relay node is running.
RelayDown == { n \in 1..NumRelay : p[RelayKey(n)] # "live" }

C2_AtMostOneRelayDown ==
    Launched =>
       /\ Cardinality(RelayDown) <= 1
       /\ RelayDown \subseteq (IF pc = "relay_start" THEN { node_count } ELSE {})

\* the second relay node is stopped while the first, replaced before, runs
C2_Witness ==
    /\ pc = "relay_start"
    /\ node_count = 2
    /\ RelayDown = { 2 }
    /\ RelayKey(1) \in hist.restarted
    /\ p[RelayKey(1)] = "live"

\* C3: the n-th relay node is stopped and restarted no earlier than
\* n * epoch_time after the rolling restart began, and no earlier than one
\* epoch_time after the node before it was.
C3_RestartNotBeforeEpochs ==
    /\ pc = "relay_start" => now >= hist.phaseStart + node_count * epoch_time
    /\ \A n \in 1..Len(hist.restartAt) :
          /\ hist.restartAt[n] >= hist.phaseStart + n * epoch_time
          /\ n > 1 => hist.restartAt[n] - hist.restartAt[n - 1] >= epoch_time

\* two relay nodes restarted, with an epoch time that is no whole number of seconds
C3_Witness ==
    /\ Len(hist.restartAt) = 2
    /\ epoch_time % TimerStep # 0
    /\ epoch_time > TimerStep

C5_UpgradedIsMonotonic ==
    [][ \A id \in ParaIds :
           parachains_info[id].has_updated => parachains_info'[id].has_updated ]_vars

\* a session was found upgraded on an earlier pass and a later pass runs
C5_Witness ==
    /\ hist.passes >= 2
    /\ InVerifyPass
    /\ \E id \in Sessions : parachains_info[id].has_updated /\ id \notin hist.pending

C7_RelayFailureDoesNotAbort ==
    /\ [][ /\ (pc = "relay_verdict" /\ pc' # pc) =>
                /\ relay_upgrade_failed' = (relay_new_version = relay_old_version)
                /\ pc' = "para_upgrade_wait"
           /\ hist.relayVerdict => relay_upgrade_failed' = relay_upgrade_failed ]_vars
    /\ [](pc \in { "summary", "done" } /\ relay_upgrade_failed =>
             /\ relay_new_version = relay_old_version
             /\ hist.passes >= 1
             /\ \A a \in 1..NumParachains : Session(a).exists => a \in hist.upgraded)
    /\ [](pc = "done" /\ relay_upgrade_failed => report = "failed")

\* the relay failed to upgrade, the parachains all upgraded
C7_Witness ==
    /\ pc = "done"
    /\ relay_upgrade_failed
    /\ ~parachains_upgrade_failed
    /\ Sessions # {}
    /\ \A id \in Sessions : parachains_info[id].has_updated

\* C8: the loop never connects to a session that is already upgraded; a read
\* that differs from the session's old version upgrades the session; a pass
\* re-reads only sessions that were not upgraded when it began, it has re-read
\* every such session of the entries it has gone past, and at its end it has
\* re-read all of them.
C8_UpgradedSkippedOthersReread ==
    /\ [](pc \in { "verify_read", "verify_disconnect" } =>
             ~Session(para_i).has_updated)
    /\ [][ (pc = "verify_disconnect" /\ pc' # pc
            /\ spec_version # Session(para_i).old_version) =>
              parachains_info'[ResolvedId(para_i)].has_updated ]_vars
    /\ [](InVerifyPass => hist.reads \subseteq hist.pending)
    /\ [](InVerifyPass \/ Crashed =>
             \A a \in 1..(para_i - 1) :
                ResolvedId(a) \in hist.pending => ResolvedId(a) \in hist.reads)
    /\ [](pc = "verify_loop" /\ para_i > NumParachains => hist.reads = hist.pending)

\* third pass: one session upgraded on an earlier pass, another one re-read
C8_Witness ==
    /\ hist.passes = 3
    /\ pc = "verify_loop"
    /\ para_i > NumParachains
    /\ hist.reads # {}
    /\ \E id \in Sessions : parachains_info[id].has_updated /\ id \notin hist.pending

\* C9 as stated: no collator is stopped before the relay
\* runtime upgrade was submitted and its outcome determined.
C9_RelayUpgradeBeforeCollatorRestart ==
    hist.stopped \cap AllCollators # {} => hist.relaySubmitted /\ hist.relayVerdict

\* C9, the order the code follows: every relay node and then every collator
\* is restarted before the relay runtime upgrade is submitted; the relay
\* outcome is determined after the submission and before any parachain
\* upgrade is submitted; every session's upgrade is submitted before the first
\* verification pass.
C9_OrderOfPhases ==
    /\ hist.stopped \cap AllCollators # {} =>
          \A n \in 1..NumRelay : RelayKey(n) \in hist.restarted
    /\ hist.relaySubmitted => AllCollators \subseteq hist.restarted
    /\ hist.relayVerdict => hist.relaySubmitted
    /\ hist.upgraded # {} => hist.relayVerdict
    /\ hist.passes > 0 =>
          /\ hist.relayVerdict
          /\ \A a \in 1..NumParachains : Session(a).exists => a \in hist.upgraded

\* the whole test ran on a plan with a parachain of two collators
C9_Witness ==
    /\ pc = "done"
    /\ \E a \in 1..NumParachains : NumNodes(a) = 2
    /\ hist.relaySubmitted
    /\ hist.upgraded # {}

\* C10 as stated: once any node was stopped, the relay baseline and every
\* parachain session have been read.
C10_AllReadBeforeAnyStop ==
    hist.stopped # {} =>
       /\ hist.baselineRead
       /\ \A a \in 1..NumParachains : NumNodes(a) > 0 => a \in hist.sessionRead

\* C10, what the code does: the relay baseline is read before any node is
\* stopped; a parachain's session is read after every relay node was
\* restarted and before any node of that parachain is stopped.
C10_ReadBeforeOwnStop ==
    /\ hist.stopped # {} => hist.baselineRead
    /\ hist.sessionRead # {} => \A n \in 1..NumRelay : RelayKey(n) \in hist.restarted
    /\ \A a \in 1..NumParachains :
          (\E b \in 1..MaxNodes : CollatorKey(a, b) \in hist.stopped) => a \in hist.sessionRead

\* the second parachain's collator is stopped, after the first one's
C10_Witness ==
    /\ NumParachains = 2
    /\ CollatorKey(1, 1) \in hist.restarted
    /\ CollatorKey(2, 1) \in hist.stopped

\* C11: for each parachain with a session, the enactment extrinsic is submitted
\* only after the authorization extrinsic of that same entry was submitted and
\* its await completed: while an enactment is in flight, and whenever
\* upgradeParachainRuntime has returned for an entry, that entry's
\* authorization has completed, and the entry has a session.
C11_AuthorizedBeforeEnact ==
    /\ tx.kind = "enact" => para_i \in hist.authorized /\ Session(para_i).exists
    /\ pc = "para_upgrade_enact" => para_i \in hist.authorized
    /\ hist.upgraded \subseteq hist.authorized

\* the enactment of the second parachain is in flight, the first one is done
C11_Witness ==
    /\ tx.kind = "enact"
    /\ para_i = 2
    /\ hist.upgraded = { 1 }
    /\ hist.authorized = { 1, 2 }

\* C12: at most one live process per key of the tracking table: whenever a
\* process is started under a key, the previous occupant of that key, if
\* any, has already terminated.
C12_PreviousOccupantTerminated ==
    [][ \A k \in Keys :
           (p'[k] = "live" /\ p[k] # "live") => p[k] \in { "none", "exited" } ]_vars

\* C13: an invocation of killAll calls kill() exactly once on every handle
\* that is in the tracking table at that moment, and on nothing else; it
\* completes when some of those handles have already terminated, and
\* afterwards no tracked process is left running unsignalled.
C13_KillAllSignalsEveryHandle ==
    /\ hist.killAllRuns <= 1
    /\ hist.killAllRuns = 0 => \A k \in Keys : hist.killed[k] = 0
    /\ hist.killAllRuns = 1 =>
          /\ pc = "exited"
          /\ \A k \in Keys :
                /\ hist.killed[k] = IF p[k] # "none" THEN 1 ELSE 0
                /\ p[k] # "live"

\* killAll ran while the table held a handle that killProcess had stopped and
\* that had exited, and a handle of a running process
C13_Witness ==
    /\ hist.killAllRuns = 1
    /\ \E k \in hist.stopped : p[k] = "exited" /\ hist.killed[k] = 1
    /\ \E k \in Keys \ hist.stopped : p[k] = "signalled" /\ hist.killed[k] = 1

\* C14: once the exit and SIGINT hooks are registered, the process never ends
\* without killAll having run, whether it ends by an interrupt, by
\* process.exit or by returning; an interrupt ends it with exit code 2, at
\* whatever point of the run it arrives.
C14_KillAllBeforeProcessEnds ==
    /\ pc = "exited" /\ hist.handlers => hist.killAllRuns = 1
    /\ pc = "exited" /\ hist.exitReason = "interrupt" => exit_code = << ExitInterrupt >>
    /\ pc = "exited" /\ hist.handlers => \A k \in Keys : p[k] # "live"
    /\ pc # "exited" => exit_code = << >>

\* the interrupt arrived while launch was suspended on the readiness of a
\* collator, with the relay nodes running
C14_Witness ==
    /\ pc = "exited"
    /\ hist.exitReason = "interrupt"
    /\ exit_code = << ExitInterrupt >>
    /\ hist.killAllRuns = 1
    /\ hist.ready = {}
    /\ p[CollatorKey(1, 1)] = "signalled"
    /\ p[RelayKey(1)] = "signalled"

\* C15: resolving a plan a second time, as launch does after the upgrade test
\* has resolved it, leaves every resolved id and resolved spec reference as
\* they are and starts no spec-generation process.
C15_SecondResolveIsNoOp ==
    [][ resolve_round = 2 /\ pc \in { "resolve", "resolve_spec_wait", "resolve_raw_wait",
                                      "resolve_edit", "resolve_id", "resolve_read_wait" } =>
           /\ \A a \in 1..NumParachains :
                 /\ config'.parachains[a].resolvedId = config.parachains[a].resolvedId
                 /\ config'.parachains[a].resolvedSpec = config.parachains[a].resolvedSpec
           /\ ~(p'[SpecKey] = "live" /\ p[SpecKey] # "live") ]_vars

\* C16: an entry without a configured id ends its resolution with resolvedId
\* equal to the decimal string of the id its generated chain spec carried in
\* paraId or para_id; an entry with a configured id resolves to that id.
C16_ResolvedIdFromGeneratedSpec ==
    \A a \in 1..NumParachains :
       LET e == config.parachains[a]
           resolving == para_i = a /\ pc \in { "resolve_edit", "resolve_id", "resolve_read_wait" }
       IN  /\ e.id # NoId /\ e.resolvedId # NoId => e.resolvedId = e.id
           /\ e.id = NoId /\ hist.generated[a] # NaN /\ ~resolving =>
                 e.resolvedId = toString(hist.generated[a])

\* the order of the genesis stages, and the stages that are unconditional
StageOrder == << "generateChainSpec", "clearAuthorities", "addAuthority",
                 "changeGenesisConfig", "addParachainsToGenesis",
                 "addHrmpChannelsToGenesis", "addBootNodes", "chainInitializer" >>
MandatoryStages == { "generateChainSpec", "clearAuthorities", "addParachainsToGenesis",
                     "addBootNodes" }
StageRank(s) == CHOOSE i \in 1..Len(StageOrder) : StageOrder[i] = s
Count(seq, s) == Cardinality({ i \in 1..Len(seq) : seq[i] = s })
InStageOrder(seq) ==
    /\ \A i \in 1..Len(seq) : \E k \in 1..Len(StageOrder) : StageOrder[k] = seq[i]
    /\ \A i, j \in 1..Len(seq) : i < j => StageRank(seq[i]) <= StageRank(seq[j])
    /\ \A s \in MandatoryStages : Count(seq, s) = 1
    /\ \A i \in 1..Len(StageOrder) : StageOrder[i] # "addAuthority" => Count(seq, StageOrder[i]) <= 1
    /\ Count(seq, "addAuthority") = NumRelay
RelayStarted == \E n \in 1..MaxRelay : p[RelayKey(n)] # "none"

\* C17: in launch no relay validator is started until the spec has been
\* through every genesis stage in the order clear authorities, authorities,
\* genesis override, parachain registrations, channels, boot nodes,
\* initializer, and the raw conversion of exactly that spec (with the optional
\* raw initializer) has completed; the validators are started with that raw
\* spec.
C17_ValidatorsStartAfterFinalSpec ==
    /\ pc = "startNode" =>
          /\ rawSpecFile.converted
          /\ rawSpecFile.from = specFile
          /\ InStageOrder(rawSpecFile.from)
    /\ hist.returned = "none" /\ RelayStarted =>
          rawSpecFile.converted /\ InStageOrder(rawSpecFile.from)
    /\ ~rawSpecFile.converted /\ hist.returned = "none" => ~RelayStarted

\* the second validator is about to be started with a raw spec that went
\* through the three conditional stages and the raw initializer as well
C17_Witness ==
    /\ pc = "startNode"
    /\ node_count = 1
    /\ p[RelayKey(1)] = "live"
    /\ NumRelay = 2
    /\ Len(rawSpecFile.from) = 9
    /\ rawSpecFile.rawInitialized

\* C18: in launch a balance-seeding extrinsic is in flight only when every
\* collator of that parachain (the collator of that simple parachain) has
\* been started and observed ready, and while the chain client connected to
\* the first relay node is open.
C18_BalanceAfterCollatorsReady ==
    /\ tx.kind = "balance" =>
          /\ api = RelayKey(1)
          /\ \A b \in 1..NumNodes(para_i) :
                CollatorKey(para_i, b) \in hist.ready /\ p[CollatorKey(para_i, b)] # "none"
    /\ tx.kind = "simple_balance" =>
          /\ api = RelayKey(1)
          /\ SimpleKey(para_i) \in hist.ready

\* the balance of the second parachain, which has two collators, is being
\* seeded and waits for finalization
C18_Witness ==
    /\ tx.kind = "balance"
    /\ tx.status = "inBlock"
    /\ para_i = 2
    /\ NumNodes(2) = 2
    /\ hist.ready = AllCollators

C20_NonZeroExitOnMissingFile ==
    pc = "exited" /\ hist.exitReason \in { "missing_config_file", "missing_relay_binary",
                                            "missing_parachain_binary", "missing_simple_binary",
                                            "invalid_config" } =>
       exit_code # << 0 >>

\* C30: an extrinsic submission settles at most once. While it is pending the
\* caller is suspended; with finalization off it resolves at the first
\* in-block status, with finalization on it stays pending at the in-block
\* status and resolves at the finalized status; an error status reported
\* while it is pending rejects it, and nothing that arrives later changes a
\* settled outcome.
C30_SettlesAtMostOnce ==
    /\ [](tx.promise = "pending" =>
            /\ pc = "tx_wait"
            /\ tx.status \in (IF tx.finalization THEN { "sent", "inBlock" } ELSE { "sent" }))
    /\ [](pc = "tx_wait" => tx.promise = "pending")
    /\ [][ tx.promise = "pending" /\ tx' # tx =>
             \/ tx.finalization /\ tx.status = "sent" /\ tx' = [ tx EXCEPT !.status = "inBlock" ]
                                 /\ pc' = "tx_wait"
             \/ /\ tx' = NoTx
                /\ pc' = afterTx(tx.kind)
                /\ tx.status = (IF tx.finalization THEN "inBlock" ELSE "sent")
             \/ /\ tx'.promise = "rejected"
                /\ tx'.status = "error"
                /\ pc' = "rejected" ]_vars
    /\ [][ tx.promise = "rejected" => tx'.promise = "rejected" /\ pc' = pc ]_vars

\* an authorization that waited for finalization was rejected after its
\* in-block status, and a further status arrived afterwards
C30_Witness ==
    /\ tx.kind = "authorize"
    /\ tx.status = "late"
    /\ tx.promise = "rejected"
    /\ pc = "rejected"

\* C28: when an extrinsic of the upgrade test reports an error status the
\* submitting operation is rejected and nothing of the phase follows: after an
\* authorization error no enactment is submitted for that parachain, and
\* after a relay upgrade error no parachain upgrade extrinsic is submitted.
C28_ErrorAbortsPhase ==
    /\ hist.txError # << >> =>
          /\ pc = "rejected"
          /\ tx.promise = "rejected"
          /\ tx.kind = hist.txError[1]
    /\ hist.txError # << >> /\ hist.txError[1] = "authorize" =>
          /\ hist.txError[2] \notin hist.authorized
          /\ hist.txError[2] \notin hist.upgraded
    /\ hist.txError # << >> /\ hist.txError[1] = "relay_upgrade" =>
          /\ hist.authorized = {}
          /\ hist.upgraded = {}
          /\ ~hist.relayVerdict

\* the relay upgrade extrinsic errored in a test that has a parachain session
C28_Witness ==
    /\ hist.txError # << >>
    /\ hist.txError[1] = "relay_upgrade"
    /\ Sessions # {}
    /\ pc = "rejected"

\* the entries in the order of the claim: the full parachains, then the
\* simple ones, each list in declaration order
Declared ==
    [ a \in 1..NumParachains |-> << FALSE, a >> ] \o
    [ a \in 1..Len(config.simpleParachains) |-> << TRUE, a >> ]
DeclaredId(e) == IF e[1] THEN config.simpleParachains[e[2]].resolvedId
                         ELSE config.parachains[e[2]].resolvedId

\* C29: genesis registration visits the full parachains first and the simple
\* ones second, each group in declaration order; the registration written
\* for an id carries the genesis state and code of the first entry, in that
\* order, that resolves to the id, and a later entry never replaces it.
C29_FirstEntryRegisters ==
    /\ [](\A k \in 1..Len(hist.visited) : hist.visited[k] = Declared[k])
    /\ [](hist.genesisDone => hist.visited = Declared)
    /\ [](\A id \in ParaIds :
            hist.genesisOf[id] # << >> =>
               \E k \in 1..Len(hist.visited) :
                  /\ Declared[k] = hist.genesisOf[id]
                  /\ DeclaredId(Declared[k]) = id
                  /\ \A j \in 1..(k - 1) : DeclaredId(Declared[j]) # id)
    /\ [][ \A id \in ParaIds :
             hist.genesisOf[id] # << >> => hist'.genesisOf[id] = hist.genesisOf[id] ]_vars

\* the second full parachain and the simple parachain resolve to the id of
\* the first full parachain, which keeps the registration
C29_Witness ==
    /\ hist.genesisDone
    /\ NumParachains = 2
    /\ Len(config.simpleParachains) = 1
    /\ ResolvedId(1) = ResolvedId(2)
    /\ config.simpleParachains[1].resolvedId = ResolvedId(1)
    /\ hist.genesisOf[ResolvedId(1)] = << FALSE, 1 >>

\* C21: a declared key file that is absent when a collator's authority key
\* is applied is fatal: the run ends at that point, and after the missing key
\* was detected no node is started or restarted.
C21_MissingKeyIsFatal ==
    /\ [][ (hist.keyMissing = NoKey /\ hist'.keyMissing # NoKey) => pc' = "exited" ]_vars
    /\ [][ hist.keyMissing # NoKey =>
             \A k \in Keys : p'[k] = "live" => p[k] = "live" ]_vars

\* the exits run() takes at a "binary does not exist" check
MissingBinaryExits == { "missing_relay_binary", "missing_parachain_binary",
                        "missing_simple_binary" }

\* C22: when launch finds a required binary missing the process ends at that
\* step: no node is started by it or after it, and kill() is called, by the
\* exit hook, on every process that is in the tracking table at that moment,
\* so that none of them is left running unsignalled.
C22_MissingBinaryEndsLaunch ==
    /\ [][ (pc # "exited" /\ hist'.exitReason \in MissingBinaryExits) =>
             /\ pc' = "exited"
             /\ hist'.killAllRuns = hist.killAllRuns + 1
             /\ \A k \in Keys :
                   /\ p[k] = "none" => p'[k] = "none" /\ hist'.killed[k] = hist.killed[k]
                   /\ p[k] # "none" => hist'.killed[k] = hist.killed[k] + 1
                   /\ p[k] = "live" => p'[k] = "signalled"
                   /\ p'[k] # "live" ]_vars
    /\ [][ pc = "exited" => p' = p /\ pc' = "exited" ]_vars

\* the binary of the simple parachain is missing when the relay nodes and a
\* collator are running and the chain spec generator has long exited
C22_Witness ==
    /\ pc = "exited"
    /\ hist.exitReason = "missing_simple_binary"
    /\ p[RelayKey(1)] = "signalled"
    /\ hist.killed[RelayKey(1)] = 1
    /\ p[SpecKey] = "exited"
    /\ hist.killed[SpecKey] = 1
    /\ p[CollatorKey(1, 1)] = "signalled"
    /\ p[SimpleKey(1)] = "none"
    /\ hist.killed[SimpleKey(1)] = 0

\* C23: startCollator and startSimpleCollator complete only at a chunk of the
\* process's output that holds one of their readiness lines; while no such
\* chunk arrives the caller stays where it is, and once the process has
\* exited without one it stays there for good (nothing times the wait out).
C23_CompletesOnlyWhenReady ==
    /\ [][ (awaited # NoKey /\ pc' # pc) =>
             /\ hist.chunk \in { "Running JSON-RPC WS server:", "Imported",
                                 "Listening for new connections" }
             /\ pc = "launch_simple_ready" => hist.chunk # "Imported" ]_vars
    /\ [][ (awaited # NoKey /\ p[awaited] = "exited" /\ hist.chunk = NoChunk) =>
             /\ pc' = pc
             /\ p'[awaited] = "exited"
             /\ hist'.chunk = NoChunk ]_vars

\* the second collator of a parachain exited before any readiness line, after
\* the first had become ready: launch is suspended on it, time passing or not
C23_Witness ==
    /\ pc = "launch_collator_ready"
    /\ CollatorKey(1, 1) \in hist.ready
    /\ awaited = CollatorKey(1, 2)
    /\ p[CollatorKey(1, 2)] = "exited"
    /\ hist.chunk = NoChunk

\* the collators of the plan, full and simple
CollatorKeys ==
    { CollatorKey(a, b) : a \in 1..MaxParas, b \in 1..MaxNodes }
       \cup { SimpleKey(k) : k \in 1..MaxSimple }

\* C24: while launch runs, at most one collator, over all parachains and
\* simple parachains, has been started without having become ready; and a
\* collator is started only when every relay validator of the plan has been
\* spawned and the client is connected to the relay chain.
C24_CollatorsStartOneAtATime ==
    /\ [](hist.returned = "none" =>
             Cardinality({ k \in CollatorKeys : p[k] # "none" /\ k \notin hist.ready }) <= 1)
    /\ [][ \A k \in CollatorKeys :
             (hist.returned = "none" /\ p[k] = "none" /\ p'[k] # "none") =>
                /\ \A n \in 1..NumRelay : p[RelayKey(n)] # "none"
                /\ api = RelayKey(1)
                /\ \A j \in CollatorKeys : p[j] # "none" => j \in hist.ready ]_vars

\* the simple collator is started, and not yet ready, after the two collators
\* of a parachain became ready one after the other, all relay validators up
C24_Witness ==
    /\ hist.returned = "none"
    /\ NumRelay = MaxRelay
    /\ \A n \in 1..NumRelay : p[RelayKey(n)] = "live"
    /\ { CollatorKey(1, 1), CollatorKey(1, 2) } \subseteq hist.ready
    /\ p[SimpleKey(1)] = "live"
    /\ SimpleKey(1) \notin hist.ready

\* C25: the relay runtime upgrade is submitted only when every relay node of
\* the plan has been restarted with the upgraded binary, and no earlier than
\* one epoch_time after the last of these restarts.
C25_RelayUpgradeAfterRestartsAndEpoch ==
    [][ (~hist.relaySubmitted /\ hist'.relaySubmitted) =>
          /\ Len(hist.restartAt) = NumRelay
          /\ \A n \in 1..NumRelay : RelayKey(n) \in hist.restarted
          /\ now >= hist.restartAt[NumRelay] + epoch_time
          /\ tx'.kind = "relay_upgrade" ]_vars

\* the upgrade was submitted after two relay restarts, the plan having no
\* collator to restart in between and the epoch time being no whole number
\* of seconds
C25_Witness ==
    /\ hist.relaySubmitted
    /\ NumRelay = 2
    /\ hist.restarted = { RelayKey(1), RelayKey(2) }
    /\ epoch_time % TimerStep # 0
    /\ now < hist.restartAt[2] + epoch_time + TimerStep

\* C26: with the wait option the upgrade test stops no node and submits no
\* upgrade extrinsic while it waits; the wait ends only when the prompt was
\* submitted or SIGUSR1 was received, either of them is enough, both of them
\* (the signal after the prompt) end it exactly as one does, and the test then
\* goes on to read the relay chain's baseline.
C26_WaitHoldsUntilReleased ==
    /\ [](pc \in { "should_wait", "waiting" } =>
             /\ hist.stopped = {}
             /\ hist.restarted = {}
             /\ ~hist.relaySubmitted
             /\ hist.upgraded = {}
             /\ tx.kind \notin { "relay_upgrade", "authorize", "enact" })
    /\ [](pc = "waiting" => (wait.is_ready <=> wait.events # {}))
    /\ [][ (pc = "waiting" /\ wait.events = {}) =>
             /\ pc' = "waiting"
             /\ p' = p
             /\ tx' = tx ]_vars
    /\ [][ (pc = "waiting" /\ pc' # "waiting") =>
             /\ wait.events # {}
             /\ pc' = "baseline_connect"
             /\ wait' = NoWait
             /\ p' = p ]_vars
    /\ [](pc = "waiting" /\ wait.events # {} => ENABLED WaitReleased)

\* the prompt was submitted, then SIGUSR1 arrived, before the loop looked at
\* is_ready again
C26_Witness ==
    /\ pc = "waiting"
    /\ wait.events = { "prompt", "SIGUSR1" }
    /\ wait.is_ready
    /\ wait.prompt = "submitted"

\* C27: the parachains-only upgrade test never stops or restarts a relay
\* node and never submits the relay runtime upgrade; it takes no verdict on
\* the relay, and the banner it ends with is FAILED exactly when the
\* verification of the parachain sessions left parachains_upgrade_failed set.
C27_ParachainsOnlyLeavesRelayAlone ==
    mode = "upgrade_parachains" =>
       /\ \A n \in 1..MaxRelay : RelayKey(n) \notin (hist.stopped \cup hist.restarted)
       /\ hist.restartAt = << >>
       /\ pc \notin { "relay_loop", "relay_wait", "relay_start", "relay_upgrade_wait",
                      "relay_upgrade_submit", "relay_verdict" }
       /\ ~hist.relaySubmitted
       /\ tx.kind # "relay_upgrade"
       /\ ~hist.relayVerdict
       /\ ~relay_upgrade_failed
       /\ report # "none" =>
             /\ report = (IF parachains_upgrade_failed THEN "failed" ELSE "complete")
             /\ report = "complete" => \A id \in Sessions : parachains_info[id].has_updated

\* the parachains-only test ended with the COMPLETE banner, having restarted
\* a collator and upgraded its parachain, every relay node still the process
\* launch started
C27_Witness ==
    /\ mode = "upgrade_parachains"
    /\ report = "complete"
    /\ CollatorKey(1, 1) \in hist.restarted
    /\ hist.upgraded # {}
    /\ \A n \in 1..NumRelay : p[RelayKey(n)] = "live"

LaterPassWait == 3 * parachain_block_time

\* C32: the validation delay is the delay read from the relay (in blocks)
\* times the block time read after the relay upgrade; the wait before the
\* parachain upgrades is the post-upgrade epoch length times that block time;
\* the wait before pass 1 is the validation delay and the wait before passes
\* 2 and 3 is three parachain block times; each timer covers its duration,
\* rounded up to whole seconds, and the step after a wait is taken only when
\* at least that duration has passed since the wait began.
C32_WaitsFollowSchedule ==
    /\ [][ (pc = "delay_read" /\ pc' # pc) =>
             \E d \in ValidationDelays : code_validation_delay' = d * new_relay_block_time ]_vars
    /\ [][ (pc # "para_upgrade_wait" /\ pc' = "para_upgrade_wait") =>
             /\ timer' * TimerStep >= new_epoch_length * new_relay_block_time
             /\ timer' * TimerStep < new_epoch_length * new_relay_block_time + TimerStep
             /\ hist'.waitFrom = now' ]_vars
    /\ [][ (pc = "para_upgrade_wait" /\ pc' # pc) =>
             now >= hist.waitFrom + new_epoch_length * new_relay_block_time ]_vars
    /\ [][ (pc # "verify_wait" /\ pc' = "verify_wait") =>
             LET duration == IF hist'.passes = 1 THEN code_validation_delay ELSE LaterPassWait
             IN  /\ hist'.passes \in 1..MaxTries
                 /\ timer' * TimerStep >= duration
                 /\ timer' * TimerStep < duration + TimerStep
                 /\ hist'.waitFrom = now' ]_vars
    /\ [](InVerifyPass =>
             now >= hist.waitFrom + (IF hist.passes = 1 THEN code_validation_delay
                                                        ELSE LaterPassWait))

\* the third pass is checking, after a first wait that was no whole number of
\* seconds
C32_Witness ==
    /\ InVerifyPass
    /\ hist.passes = 3
    /\ code_validation_delay % TimerStep # 0
    /\ now >= hist.waitFrom + LaterPassWait

\* C33: for a parachain marked pre-populated, launch connects to the
\* parachain's first node, to read head and code, only after every node of
\* the parachain has been started and observed ready; it submits the
\* force-set-head extrinsic after the read and submits force-set-code only
\* when force-set-head has been awaited to finalization; and the balance of
\* that parachain is submitted only after both have completed, in that order.
C33_RestoreThenBalance ==
    /\ [][ (pc = "launch_paras" /\ pc' = "launch_restore_read") =>
              /\ hist'.paraApi = CollatorKey(para_i, 1)
              /\ \A b \in 1..NumNodes(para_i) :
                    CollatorKey(para_i, b) \in hist.ready /\ p[CollatorKey(para_i, b)] # "none" ]_vars
    /\ [][ (tx.kind # "force_head" /\ tx'.kind = "force_head") =>
              /\ hist.paraApi = CollatorKey(para_i, 1)
              /\ hist'.forced = << "read" >> ]_vars
    /\ [][ (tx.kind # "force_code" /\ tx'.kind = "force_code") =>
              hist.forced = << "read", "head" >> ]_vars
    /\ [][ (tx.kind = "force_head" /\ tx'.kind # "force_head" /\ pc' # "rejected") =>
              tx.status = "inBlock" ]_vars
    /\ [][ (pc = "launch_balance" /\ tx'.kind = "balance") =>
              hist.forced = << "read", "head", "code" >> ]_vars
    /\ [](pc \in { "launch_restore_read", "launch_force_code", "launch_restore_disconnect" } =>
              tx.kind \notin { "balance", "simple_balance" })

\* the second parachain, which has two collators, was restored from its
\* first node and its balance is being seeded
C33_Witness ==
    /\ tx.kind = "balance"
    /\ para_i = 2
    /\ NumNodes(2) = 2
    /\ hist.forced = << "read", "head", "code" >>

\* C34: once launch has returned, at most one chain-client connection is open
\* at any time, a connection is opened only when the one opened before it
\* has been disconnected, and when the summary is reported (no submission
\* was rejected on such a run) no connection is open.
OpenConnections ==
    (IF api = NoKey THEN 0 ELSE 1) + (IF hist.paraApi = NoKey THEN 0 ELSE 1) + hist.leaked

C34_OneConnectionAtATime ==
    /\ [](Launched => OpenConnections <= 1)
    /\ [][ (Launched /\ api = NoKey /\ api' # NoKey) => OpenConnections = 0 ]_vars
    /\ [](Launched => hist.leaked = 0)
    /\ [](pc \in { "summary", "done" } => (OpenConnections = 0 /\ hist.txError = << >>))

\* the summary was reported after every parachain session had been read again
\* on three passes, each through a connection of its own
C34_Witness ==
    /\ pc = "done"
    /\ hist.passes = 3
    /\ Cardinality(Sessions) = 2
    /\ OpenConnections = 0

\* C35: whenever a node is started under a key that already holds a handle,
\* killProcess has been called on that key and the handle it held has been
\* sent its signal, so no handle is ever replaced unsignalled; and when the
\* process ends with its hooks registered, every node process is either one
\* that was signalled before it was replaced, or is in the table and got its
\* kill() from killAll, and none is left running without a signal.
C35_NoNodeLeftUnsignalled ==
    /\ [][ \A k \in Keys \ { SpecKey } :
              (k \in hist'.restarted /\ k \notin hist.restarted) =>
                 /\ k \in hist.stopped
                 /\ p[k] \in { "signalled", "exited" }
                 /\ p'[k] = "live" ]_vars
    /\ [](hist.orphans = {})
    /\ [](pc = "exited" /\ hist.handlers =>
             \A k \in Keys \ { SpecKey } :
                /\ p[k] # "live"
                /\ p[k] # "none" => hist.killed[k] = 1)

\* the user interrupted the upgrade test after a relay node and a collator had
\* been stopped and started again: killAll signalled the second occupants
C35_Witness ==
    /\ pc = "exited"
    /\ hist.exitReason = "interrupt"
    /\ { RelayKey(1), CollatorKey(1, 1) } \subseteq hist.restarted
    /\ p[RelayKey(1)] = "signalled"
    /\ p[CollatorKey(1, 1)] = "signalled"
    /\ hist.killed[RelayKey(1)] = 1
    /\ hist.killed[CollatorKey(1, 1)] = 1

\* C36: the relay runtime-upgrade extrinsic is submitted without waiting for
\* finalization whatever finalization argument upgradeRelayRuntime is given,
\* so its await ends at in-block inclusion and the relay version is read
\* again from there; the authorization extrinsic of a parachain, submitted
\* with a true finalization argument, ends its await only at finalization.
C36_RelayUpgradeEndsInBlock ==
    /\ [](\A f \in BOOLEAN : ~upgradeRelayRuntime(f).finalization)
    /\ [](authorizeUpgrade(TRUE).finalization)
    /\ [](tx.kind = "relay_upgrade" => (~tx.finalization /\ tx.status # "inBlock"))
    /\ [][ (tx.kind = "relay_upgrade" /\ pc = "tx_wait" /\ pc' = afterTx("relay_upgrade")) =>
              tx.status = "sent" ]_vars
    /\ [][ (pc = "relay_info_connect" /\ pc' = "relay_info_read") => hist.relaySubmitted ]_vars
    /\ [](tx.kind = "authorize" => tx.finalization)
    /\ [][ (tx.kind = "authorize" /\ pc = "tx_wait" /\ pc' = afterTx("authorize")) =>
              tx.status = "inBlock" ]_vars

\* the authorization of the second parachain is included and waits for
\* finalization, on a run whose relay upgrade was awaited to inclusion only
C36_Witness ==
    /\ tx.kind = "authorize"
    /\ tx.status = "inBlock"
    /\ pc = "tx_wait"
    /\ para_i = 2
    /\ hist.relaySubmitted

C38_RestartedAsLaunched ==
    \A k \in AllCollators :
       Len(hist.options[k]) = 2 =>
          /\ hist.options[k][2].node = hist.options[k][1].node
          /\ hist.options[k][2].bin = "upgradeBin"
          /\ hist.options[k][1].bin = "bin"
          /\ hist.options[k][2].onlyOneParachainNode = hist.options[k][1].onlyOneParachainNode
====
